---- MODULE Spec2Model ----
(***************************************************************************)
(* Model of the Bonzo plugin's write tools (approve, deposit, withdraw,    *)
(* borrow, repay) and of the helpers in src/bonzo/utils.ts they share:     *)
(* contract directory, token resolution, amount conversion, gas and fee    *)
(* selection, network-mismatch check, and the submit / freeze branch.      *)
(***************************************************************************)
EXTENDS Integers, Sequences, FiniteSets, TLC

(***************************************************************************)
(* Bounds of the model (not program constants).                            *)
(***************************************************************************)
MaxIntDigits == 2
MaxFracDigits == 2
MaxDecimals == 18

(***************************************************************************)
(* Generic values.                                                         *)
(***************************************************************************)
Undef == "<undefined>"

RECURSIVE SeqRange(_, _)
SeqRange(s, i) == IF i > Len(s) THEN {} ELSE {s[i]} \cup SeqRange(s, i + 1)

Range(s) == SeqRange(s, 1)

(***************************************************************************)
(* Networks.  NetworkKey is the type of utils.ts; LedgerIds are the values *)
(* client.ledgerId?.toString().toLowerCase() can take (Undef: no ledger    *)
(* id on the client).                                                      *)
(***************************************************************************)
NetworkKey == {"hedera_mainnet", "hedera_testnet"}

LedgerIds == {"mainnet", "testnet", "previewnet", Undef}

Ok(v) == [ok |-> TRUE, val |-> v]

Throw(e) == [ok |-> FALSE, err |-> e]

\* A thrown value.  isError: it is an Error instance (it has a message);
\* code, symbol, network, available and cause are the parts of the message.
Err(code, symbol, network, available, cause) ==
    [isError |-> TRUE, code |-> code, symbol |-> symbol, network |-> network,
     available |-> available, cause |-> cause]

SimpleErr(code, cause) == Err(code, Undef, Undef, << >>, cause)

\* a thrown value that is not an Error instance
NonError == [isError |-> FALSE, code |-> "non-error", symbol |-> Undef, network |-> Undef,
             available |-> << >>, cause |-> Undef]

getNetworkKey(ledger) ==
    IF ledger = "mainnet" THEN Ok("hedera_mainnet")
    ELSE IF ledger = "testnet" THEN Ok("hedera_testnet")
    ELSE Throw(SimpleErr("UnsupportedNetwork", ledger))

(***************************************************************************)
(* Addresses.  Only the mainnet lending pool is written in mixed case;     *)
(* toLowerCase is the identity on every other address of the model.        *)
(***************************************************************************)
MAINNET_LENDING_POOL_ADDRESS == "0x236897c518996163E7b313aD21D1C9fCC7BA1afc"

MainnetPoolLower == "0x236897c518996163e7b313ad21d1c9fcc7ba1afc"

TestnetPool == "0xf67dbe9bd1b331ca379c44b5562eaa1ce831ebc2"

AddrToLowerCase(a) == IF a = MAINNET_LENDING_POOL_ADDRESS THEN MainnetPoolLower ELSE a

(***************************************************************************)
(* Contract directory (bonzo-contracts.json).  A table is the sequence of  *)
(* its top-level entries in file order (the order Object.entries yields).  *)
(* Per network an entry is absent (defined = FALSE) or carries the values  *)
(* of net.token?.address, net.aToken?.address ... and, for singleton       *)
(* contracts, net.address; a missing field is Undef.                       *)
(***************************************************************************)
NoNet == [defined |-> FALSE, token |-> Undef, aToken |-> Undef,
          stableDebt |-> Undef, variableDebt |-> Undef, address |-> Undef]

TokenNet(t) == [defined |-> TRUE, token |-> t, aToken |-> "0xa" \o t,
                stableDebt |-> "0xs" \o t, variableDebt |-> "0xv" \o t,
                address |-> Undef]

SingletonNet(a) == [defined |-> TRUE, token |-> Undef, aToken |-> Undef,
                    stableDebt |-> Undef, variableDebt |-> Undef, address |-> a]

Entry(k, m, t) == [key |-> k, hedera_mainnet |-> m, hedera_testnet |-> t]

TokenEntries ==
    << Entry("WHBAR", TokenNet("whbar_m"), TokenNet("whbar_t")),
       Entry("USDC", TokenNet("usdc_m"), NoNet),
       Entry("SAUCE", TokenNet("sauce_m"), TokenNet("")),
       Entry("HBARX", TokenNet("hbarx_m"), TokenNet("hbarx_t")) >>

\* a well-formed directory
TableOk ==
    TokenEntries \o
    << Entry("LendingPool", SingletonNet(MAINNET_LENDING_POOL_ADDRESS), SingletonNet(TestnetPool)) >>

\* a directory whose testnet lending pool carries the mainnet address
TableMismatch ==
    TokenEntries \o
    << Entry("LendingPool", SingletonNet(MAINNET_LENDING_POOL_ADDRESS), SingletonNet(MainnetPoolLower)) >>

\* a directory with no token available on testnet and no lending pool
TableSparse ==
    << Entry("USDC", TokenNet("usdc_m"), NoNet) >>

\* Directories are named; TableOf gives the entries of a named directory.
Tables == {"TableOk", "TableMismatch", "TableSparse"}

\* TableFalsy names a falsy JSON value (0, false, ""): every property read
\* gives undefined and Object.entries gives no entry
TableOf(name) ==
    IF name = "TableOk" THEN TableOk
    ELSE IF name = "TableMismatch" THEN TableMismatch
    ELSE IF name = "TableSparse" THEN TableSparse
    ELSE << >>

\* what the file bonzo-contracts.json holds
FileStates == {"missing", "malformed"} \cup Tables

\* cachedContracts before the first successful load
NoCache == Undef

Keys(table) == {table[i].key : i \in 1..Len(table)}

\* contracts[key]: the entry, or Undef
Lookup(table, k) ==
    IF k \in Keys(table)
    THEN (CHOOSE i \in 1..Len(table) : table[i].key = k)
    ELSE 0

\* a file that parses to a falsy JSON value instead of a directory
FalsyJson == "falsy"

\* a loader that reads the file on every call
loadContracts_NoMemo(cache, fileState) ==
    IF fileState = "missing"
    THEN [ok |-> FALSE, err |-> SimpleErr("ENOENT", "bonzo-contracts.json"), cache |-> cache, read |-> TRUE]
    ELSE IF fileState = "malformed"
         THEN [ok |-> FALSE, err |-> SimpleErr("SyntaxError", "JSON"), cache |-> cache, read |-> TRUE]
    ELSE IF fileState = FalsyJson
         THEN [ok |-> TRUE, val |-> "TableFalsy", cache |-> cache, read |-> TRUE]
    ELSE [ok |-> TRUE, val |-> fileState, cache |-> fileState, read |-> TRUE]

\* a loader that replaces the cached table when the file holds another one
loadContracts_FollowsFile(cache, fileState) ==
    IF cache # NoCache /\ fileState \notin Tables
    THEN [ok |-> TRUE, val |-> cache, cache |-> cache, read |-> FALSE]
    ELSE loadContracts_NoMemo(cache, fileState)

\* loadContracts: returns the cached table when there is one, else reads
\* and parses the file and caches the result.  The record carries the
\* value of cachedContracts after the call.  A falsy parse result is
\* stored and returned, but `if (cachedContracts)` takes it for no cache:
\* the model leaves the cache empty.
loadContracts(cache, fileState) ==
    IF cache # NoCache THEN [ok |-> TRUE, val |-> cache, cache |-> cache, read |-> FALSE]
    ELSE IF fileState = FalsyJson
         THEN [ok |-> TRUE, val |-> "TableFalsy", cache |-> cache, read |-> TRUE]
    ELSE IF fileState = "missing"
         THEN [ok |-> FALSE, err |-> SimpleErr("ENOENT", "bonzo-contracts.json"), cache |-> cache, read |-> TRUE]
    ELSE IF fileState = "malformed"
         THEN [ok |-> FALSE, err |-> SimpleErr("SyntaxError", "JSON"), cache |-> cache, read |-> TRUE]
    ELSE [ok |-> TRUE, val |-> fileState, cache |-> fileState, read |-> TRUE]

(***************************************************************************)
(* Symbols.  SortedKeys lists the keys of the model in the order of        *)
(* Array.prototype.sort (UTF-16 code units).                               *)
(***************************************************************************)
SortedKeys == << "HBARX", "LendingPool", "SAUCE", "USDC", "WHBAR" >>

KeyRank(k) == CHOOSE i \in 1..Len(SortedKeys) : SortedKeys[i] = k

\* the tokenSymbol parameters of the model and their toUpperCase
ParamSymbols == {"whbar", "HBARX", "USDC", "SAUCE", "DOGE"}

ToUpperCase(s) == IF s = "whbar" THEN "WHBAR" ELSE s

RECURSIVE Insert(_, _)
Insert(sorted, k) ==
    IF sorted = << >> THEN << k >>
    ELSE IF KeyRank(k) < KeyRank(Head(sorted)) THEN << k >> \o sorted
    ELSE << Head(sorted) >> \o Insert(Tail(sorted), k)

\* the entries left in file order
Sort_FileOrder(s) == s

RECURSIVE Sort(_)
Sort(s) == IF s = << >> THEN << >> ELSE Insert(Sort(Tail(s)), Head(s))

IsNonEmptyString(a) == a # Undef /\ a # ""

\* a filter that accepts every string, the empty one included
AvailableOf_AcceptsEmpty(table, network) ==
    Sort(SelectSeq([i \in 1..Len(table) |-> table[i].key],
                   LAMBDA k : LET e == table[Lookup(table, k)]
                              IN e[network].defined /\ e[network].token # Undef))

\* getAvailableSymbols on a loaded table: keys whose token address on the
\* network is a non-empty string, sorted
AvailableOf(table, network) ==
    Sort(SelectSeq([i \in 1..Len(table) |-> table[i].key],
                   LAMBDA k : LET e == table[Lookup(table, k)]
                              IN e[network].defined /\ IsNonEmptyString(e[network].token)))

\* available.join(", ") || "<none>": the listing printed in a message
Listing(available) == IF available = << >> THEN << "<none>" >> ELSE available

getAvailableSymbols(cache, fileState, network) ==
    LET l == loadContracts(cache, fileState)
    IN IF l.ok THEN [ok |-> TRUE, val |-> AvailableOf(TableOf(l.val), network), cache |-> l.cache]
       ELSE [ok |-> FALSE, err |-> l.err, cache |-> l.cache]

\* a resolution that hands out an empty token address
getTokenAddresses_AcceptsEmpty(cache, fileState, symbol, network) ==
    LET l == loadContracts(cache, fileState)
    IN IF ~l.ok THEN [ok |-> FALSE, err |-> l.err, cache |-> l.cache]
       ELSE LET contracts == TableOf(l.val)
                i == Lookup(contracts, symbol)
            IN IF i = 0
               THEN [ok |-> FALSE, err |-> Err("NotFound", symbol, Undef, << >>, Undef), cache |-> l.cache]
               ELSE LET net == contracts[i][network]
                    IN IF ~net.defined
                       THEN [ok |-> FALSE,
                             err |-> Err("NotConfigured", symbol, network, << >>, Undef),
                             cache |-> l.cache]
                       ELSE [ok |-> TRUE,
                             val |-> [token |-> IF net.token = Undef THEN "" ELSE net.token,
                                      aToken |-> net.aToken,
                                      stableDebt |-> net.stableDebt,
                                      variableDebt |-> net.variableDebt],
                             cache |-> l.cache]

getTokenAddresses(cache, fileState, symbol, network) ==
    LET l == loadContracts(cache, fileState)
    IN IF ~l.ok THEN [ok |-> FALSE, err |-> l.err, cache |-> l.cache]
       ELSE LET contracts == TableOf(l.val)
                i == Lookup(contracts, symbol)
            IN IF i = 0
               THEN [ok |-> FALSE, err |-> Err("NotFound", symbol, Undef, << >>, Undef), cache |-> l.cache]
               ELSE LET net == contracts[i][network]
                        tAddr == IF net.token = Undef THEN "" ELSE net.token
                    IN IF ~net.defined
                       THEN [ok |-> FALSE,
                             err |-> Err("NotConfigured", symbol, network, << >>, Undef),
                             cache |-> l.cache]
                       ELSE IF tAddr = ""
                       THEN [ok |-> FALSE,
                             err |-> Err("NotAvailable", symbol, network,
                                         Listing(AvailableOf(contracts, network)), Undef),
                             cache |-> l.cache]
                       ELSE [ok |-> TRUE,
                             val |-> [token |-> tAddr, aToken |-> net.aToken,
                                      stableDebt |-> net.stableDebt,
                                      variableDebt |-> net.variableDebt],
                             cache |-> l.cache]

getLendingPoolAddress(cache, fileState, network) ==
    LET l == loadContracts(cache, fileState)
    IN IF ~l.ok THEN [ok |-> FALSE, err |-> l.err, cache |-> l.cache]
       ELSE LET contracts == TableOf(l.val)
                i == Lookup(contracts, "LendingPool")
                addr == IF i = 0 THEN ""
                        ELSE IF ~contracts[i][network].defined THEN ""
                        ELSE IF contracts[i][network].address = Undef THEN ""
                        ELSE contracts[i][network].address
            IN IF addr = ""
               THEN [ok |-> FALSE, err |-> Err("NoLendingPool", Undef, network, << >>, Undef), cache |-> l.cache]
               ELSE [ok |-> TRUE, val |-> addr, cache |-> l.cache]

\* validateNetworkMismatch: TRUE when the warning is returned
validateNetworkMismatch(network, address) ==
    network = "hedera_testnet"
    /\ AddrToLowerCase(address) = AddrToLowerCase(MAINNET_LENDING_POOL_ADDRESS)

(***************************************************************************)
(* Numbers read from the environment.  A JavaScript number is NaN          *)
(* (finite = FALSE) or a finite value kept in tenths, so that fractions    *)
(* such as 0.5 and Math.trunc are represented.                             *)
(***************************************************************************)
NaN == [finite |-> FALSE, tenths |-> 0]

Num(t) == [finite |-> TRUE, tenths |-> t]

\* the values an environment variable takes in the model; Undef: not set
EnvValues == {Undef, "", "abc", "0", "-5", "7", "0.5"}

\* Number(process.env.X || "")
NumberOfEnv(v) ==
    IF v = Undef \/ v = "" THEN Num(0)
    ELSE IF v = "0" THEN Num(0)
    ELSE IF v = "-5" THEN Num(-50)
    ELSE IF v = "7" THEN Num(70)
    ELSE IF v = "0.5" THEN Num(5)
    ELSE NaN

IsFinite(n) == n.finite

\* Math.trunc of a finite number
Trunc(n) == IF n.tenths >= 0 THEN n.tenths \div 10 ELSE -((-n.tenths) \div 10)

Max(a, b) == IF a >= b THEN a ELSE b

EnvVars == {"BONZO_GAS_LIGHT", "BONZO_GAS_HEAVY", "BONZO_MAX_FEE_HBAR",
            "BONZO_GAS_APPROVE", "BONZO_MAX_FEE_HBAR_APPROVE",
            "BONZO_GAS_DEPOSIT", "BONZO_MAX_FEE_HBAR_DEPOSIT",
            "BONZO_GAS_WITHDRAW", "BONZO_MAX_FEE_HBAR_WITHDRAW",
            "BONZO_GAS_REPAY", "BONZO_MAX_FEE_HBAR_REPAY"}

DefaultGasLight == 6000000
DefaultGasHeavy == 10000000
\* HBAR; the model keeps fees in tenths of an HBAR
DefaultFeeHbar == 2
LiteralGasOverride == 1000000
DepositFeeOverride == 3000000

defaultGasAndFee(kind, e) ==
    LET envLight == NumberOfEnv(e["BONZO_GAS_LIGHT"])
        envHeavy == NumberOfEnv(e["BONZO_GAS_HEAVY"])
        envFee == NumberOfEnv(e["BONZO_MAX_FEE_HBAR"])
        gas == IF IsFinite(envLight) /\ kind = "light" THEN Max(0, Trunc(envLight))
               ELSE IF IsFinite(envHeavy) /\ kind = "heavy" THEN Max(0, Trunc(envHeavy))
               ELSE IF kind = "light" THEN DefaultGasLight
               ELSE DefaultGasHeavy
        feeHbar == IF IsFinite(envFee) /\ envFee.tenths > 0 THEN envFee.tenths ELSE DefaultFeeHbar * 10
    IN [gas |-> gas, fee |-> feeHbar]

Tools == {"approve", "deposit", "withdraw", "borrow", "repay"}

\* the tier each handler asks defaultGasAndFee for
TierOf(tool) == IF tool \in {"approve", "withdraw"} THEN "light" ELSE "heavy"

\* Number.isFinite(o) && o > 0 ? f(o) : base   (the per-tool override pattern)
OverrideOr(o, whenSet, base) == IF IsFinite(o) /\ o.tenths > 0 THEN whenSet ELSE base

\* handlers that all read their own variables, approve and deposit included
HandlerGasFee_ReadsEnv(tool, e) ==
    LET base == defaultGasAndFee(TierOf(tool), e)
        name == IF tool = "approve" THEN "APPROVE"
                ELSE IF tool = "deposit" THEN "DEPOSIT"
                ELSE IF tool = "withdraw" THEN "WITHDRAW"
                ELSE "REPAY"
        gasOverride == NumberOfEnv(e["BONZO_GAS_" \o name])
        feeOverride == NumberOfEnv(e["BONZO_MAX_FEE_HBAR_" \o name])
    IN IF tool = "borrow" THEN base
       ELSE [gas |-> OverrideOr(gasOverride, Trunc(gasOverride), base.gas),
             fee |-> OverrideOr(feeOverride, feeOverride.tenths, base.fee)]

\* the gas and fee each handler passes to setGas / setMaxTransactionFee
HandlerGasFee(tool, e) ==
    LET base == defaultGasAndFee(TierOf(tool), e)
    IN IF tool = "approve"
       THEN LET gasOverride == Num(LiteralGasOverride * 10)
                feeOverrideEnv == NumberOfEnv(e["BONZO_MAX_FEE_HBAR_APPROVE"])
            IN [gas |-> OverrideOr(gasOverride, Trunc(gasOverride), base.gas),
                fee |-> OverrideOr(feeOverrideEnv, feeOverrideEnv.tenths, base.fee)]
       ELSE IF tool = "deposit"
       THEN LET gasOverride == Num(LiteralGasOverride * 10)
                feeOverride == Num(DepositFeeOverride * 10)
            IN [gas |-> OverrideOr(gasOverride, Trunc(gasOverride), base.gas),
                fee |-> OverrideOr(feeOverride, feeOverride.tenths, base.fee)]
       ELSE IF tool = "withdraw"
       THEN LET gasOverride == NumberOfEnv(e["BONZO_GAS_WITHDRAW"])
                feeOverride == NumberOfEnv(e["BONZO_MAX_FEE_HBAR_WITHDRAW"])
            IN [gas |-> OverrideOr(gasOverride, Trunc(gasOverride), base.gas),
                fee |-> OverrideOr(feeOverride, feeOverride.tenths, base.fee)]
       ELSE IF tool = "repay"
       THEN LET gasOverride == NumberOfEnv(e["BONZO_GAS_REPAY"])
                feeOverride == NumberOfEnv(e["BONZO_MAX_FEE_HBAR_REPAY"])
            IN [gas |-> OverrideOr(gasOverride, Trunc(gasOverride), base.gas),
                fee |-> OverrideOr(feeOverride, feeOverride.tenths, base.fee)]
       ELSE base

(***************************************************************************)
(* Arbitrary-precision naturals (bigint, BigNumber coefficients): decimal  *)
(* digit sequences, most significant digit first, zero is << 0 >>.         *)
(***************************************************************************)
Digits == 0..9

Reverse(s) == [i \in 1..Len(s) |-> s[Len(s) + 1 - i]]

RECURSIVE StripZeros(_)
StripZeros(ds) ==
    IF ds = << >> THEN << 0 >>
    ELSE IF Head(ds) = 0 /\ Len(ds) > 1 THEN StripZeros(Tail(ds))
    ELSE ds

Zeros(n) == [i \in 1..n |-> 0]

\* little-endian: ds * m + carry
RECURSIVE MulAddLE(_, _, _)
MulAddLE(le, m, carry) ==
    IF le = << >>
    THEN IF carry = 0 THEN << >> ELSE << carry % 10 >> \o MulAddLE(<< >>, m, carry \div 10)
    ELSE LET v == Head(le) * m + carry
         IN << v % 10 >> \o MulAddLE(Tail(le), m, v \div 10)

\* ds * m + a for small m, a
MulAdd(ds, m, a) == StripZeros(Reverse(MulAddLE(Reverse(ds), m, a)))

BigSucc(ds) == MulAdd(ds, 1, 1)

RECURSIVE LexLeq(_, _)
LexLeq(a, b) ==
    IF a = << >> THEN TRUE
    ELSE IF Head(a) # Head(b) THEN Head(a) < Head(b)
    ELSE LexLeq(Tail(a), Tail(b))

\* a <= b on normalised digit sequences
BigLeq(a, b) == Len(a) < Len(b) \/ (Len(a) = Len(b) /\ LexLeq(a, b))

BigLess(a, b) == BigLeq(a, b) /\ a # b

\* BigInt("0x...") of a hexadecimal numeral, given as its groups of four
\* hexadecimal digits (each a value below 16^4), most significant first.
\* The sum is accumulated in limbs of four decimal digits, least
\* significant limb first, and then written out digit by digit.
RECURSIVE LimbMulAdd(_, _, _)
LimbMulAdd(limbs, m, carry) ==
    IF limbs = << >>
    THEN IF carry = 0 THEN << >> ELSE << carry % 10000 >> \o LimbMulAdd(<< >>, m, carry \div 10000)
    ELSE LET v == Head(limbs) * m + carry
         IN << v % 10000 >> \o LimbMulAdd(Tail(limbs), m, v \div 10000)

RECURSIVE HexToLimbs(_, _)
HexToLimbs(groups, acc) ==
    IF groups = << >> THEN acc
    ELSE HexToLimbs(Tail(groups), LimbMulAdd(acc, 65536, Head(groups)))

LimbsToDigits(limbs) ==
    LET n == 4 * Len(limbs)
    IN StripZeros([p \in 1..n |->
                     LET q == n - p
                         limb == limbs[(q \div 4) + 1]
                     IN (limb \div (10 ^ (q % 4))) % 10])

HexToBig(groups) == LimbsToDigits(HexToLimbs(groups, << >>))

\* a literal of 63 digits f
maxUint256_OneDigitShort == HexToBig(<< 4095 >> \o [i \in 1..15 |-> 65535])

\* "0x" followed by 64 digits f: 16 groups ffff
maxUint256 == HexToBig([i \in 1..16 |-> 65535])

(***************************************************************************)
(* Amounts.  A decimal amount is its integer digits and fraction digits;   *)
(* nan marks a string that is not a number ("abc").  kind tells whether    *)
(* the caller passed a string or a number.                                 *)
(***************************************************************************)
Amount(kind, int, frac) == [kind |-> kind, nan |-> FALSE, int |-> int, frac |-> frac]

NotANumber == [kind |-> "string", nan |-> TRUE, int |-> << >>, frac |-> << >>]

RECURSIVE StripTrailingZeros(_)
StripTrailingZeros(ds) ==
    IF ds = << >> THEN << >>
    ELSE IF ds[Len(ds)] = 0 THEN StripTrailingZeros(SubSeq(ds, 1, Len(ds) - 1))
    ELSE ds

\* the decimal text BigNumber parses: a string as given, a number through
\* String(n), which prints no leading and no trailing zeros
TextOf(a) ==
    IF a.kind = "number"
    THEN [int |-> StripZeros(a.int), frac |-> StripTrailingZeros(a.frac)]
    ELSE [int |-> a.int, frac |-> a.frac]

\* new BigNumber(amount): coefficient digits and the number of them behind
\* the decimal point
BigNumberOf(a) ==
    IF a.nan THEN [nan |-> TRUE, coef |-> << >>, scale |-> 0]
    ELSE LET t == TextOf(a) IN [nan |-> FALSE, coef |-> t.int \o t.frac, scale |-> Len(t.frac)]

\* bn.multipliedBy(new BigNumber(10).pow(decimals))
TimesPow10(bn, decimals) == [nan |-> bn.nan, coef |-> bn.coef, scale |-> bn.scale - decimals]

\* a rounding that goes up from one half (ROUND_HALF_UP)
IntegerValue_RoundHalfUp(bn) ==
    IF bn.nan \/ bn.scale <= 0 THEN bn
    ELSE LET cut == IF bn.scale >= Len(bn.coef) THEN << 0 >>
                    ELSE SubSeq(bn.coef, 1, Len(bn.coef) - bn.scale)
             first == IF bn.scale > Len(bn.coef) THEN 0 ELSE bn.coef[Len(bn.coef) - bn.scale + 1]
         IN [nan |-> FALSE, coef |-> IF first >= 5 THEN BigSucc(StripZeros(cut)) ELSE cut, scale |-> 0]

\* wei.integerValue(BigNumber.ROUND_DOWN): digits behind the point are cut
IntegerValueRoundDown(bn) ==
    IF bn.nan \/ bn.scale <= 0 THEN bn
    ELSE [nan |-> FALSE,
          coef |-> IF bn.scale >= Len(bn.coef) THEN << 0 >>
                   ELSE SubSeq(bn.coef, 1, Len(bn.coef) - bn.scale),
          scale |-> 0]

\* toFixed(0) of an integer-valued BigNumber, then BigInt(text); BigInt
\* throws a SyntaxError on "NaN"
toWei(amount, decimals) ==
    LET bn == BigNumberOf(amount)
        wei == TimesPow10(bn, decimals)
        int == IntegerValueRoundDown(wei)
    IN IF int.nan THEN Throw(SimpleErr("SyntaxError", "Cannot convert NaN to a BigInt"))
       ELSE Ok(StripZeros(int.coef \o Zeros(-int.scale)))

(***************************************************************************)
(* State.                                                                  *)
(*   file             what bonzo-contracts.json holds                      *)
(*   cachedContracts  the module-level cache of utils.ts                   *)
(*   env              process.env                                          *)
(*   pc               where the running handler is suspended (an await),   *)
(*                    "idle" before a call and "done" once it has settled  *)
(*   inv              the arguments of the call (client, context, params); *)
(*                    a field is Unread until the handler reads it         *)
(*   local            the handler's local constants                        *)
(*   tx               the ContractExecuteTransaction it has assembled      *)
(*   result           what the handler's promise settled with              *)
(*   calls            calls made on collaborators during this invocation   *)
(*   probe            input and output of a helper applied on its own      *)
(***************************************************************************)
VARIABLES file, cachedContracts, env, pc, inv, local, tx, result, calls, probe

vars == << file, cachedContracts, env, pc, inv, local, tx, result, calls, probe >>

Unread == "<unread>"

UnreadAmount == [kind |-> Unread, nan |-> FALSE, int |-> << >>, frac |-> << >>]

NoInv == [tool |-> Unread, ledgerId |-> Unread, mode |-> Unread, tokenSymbol |-> Unread,
          spender |-> Unread, amount |-> UnreadAmount, maxFlag |-> Unread,
          optAccount |-> Unread, operator |-> Unread, rateMode |-> Unread]

\* no value thrown
NoErr == [isError |-> FALSE, code |-> "none", symbol |-> Undef, network |-> Undef,
          available |-> << >>, cause |-> Undef]

\* error: the value the catch block received; thrownAt: the await (or
\* "idle": the code before the first await) after which it was thrown;
\* marketAnswer: how fetchReserves settled; evm: what AccountInfoQuery gave
NoLocal == [network |-> Undef, token |-> Undef, spender |-> Undef, decimals |-> -1,
            decimalsFrom |-> Undef, accountId |-> Undef, account |-> Undef,
            amountWei |-> << >>, error |-> NoErr, thrownAt |-> Undef,
            marketAnswer |-> Unread, evm |-> Unread]

NoTx == [built |-> FALSE, contractId |-> Undef, fn |-> Undef, asset |-> Undef,
         spender |-> Undef, account |-> Undef, amount |-> << >>, rate |-> 0,
         gas |-> 0, fee |-> 0]

NoCalls == [market |-> 0, decimalsQuery |-> 0, accountInfo |-> 0,
            txExecute |-> 0, receipt |-> 0, freeze |-> 0]

\* What a handler settles with.  kind is
\*   "submitted"         handleResponse({transactionId, status}, ...)
\*   "bytes"             handleResponse({bytes}, ...)
\*   "mismatch"          the network-mismatch text
\*   "operator-not-set"  "Operator account is not set; provide optional...."
\*   "failed"            `X failed: ${error.message}. Network: ... Available tokens: ...`
\*   "failed-bare"       "X failed"
\*   "rejected"          the promise rejects: an exception reaches the host
\*   "report"            the text of formatMarketData (market-data tool)
\*   "failed-market"     the market-data tool's error text
Settled(kind, error, network, available) ==
    [kind |-> kind, error |-> error, network |-> network, available |-> available]

NoResult == Settled("none", NoErr, Undef, << >>)

\* the value a return statement hands to the host: the {raw, humanMessage}
\* object of handleResponse, or a string
handleResponse(raw, humanMessage) ==
    [isString |-> FALSE, raw |-> raw, humanMessage |-> humanMessage]

PlainString(text) == [isString |-> TRUE, raw |-> Undef, humanMessage |-> text]

\* a handler that wraps every text it returns
Returned_AlwaysWrapped(r) == handleResponse(r.kind, r.kind)

\* what the handler's return statement for each outcome returns
Returned(r) ==
    IF r.kind = "submitted" THEN handleResponse("transactionId, status", "submitted")
    ELSE IF r.kind = "bytes" THEN handleResponse("bytes", "Transaction prepared")
    ELSE PlainString(r.kind)

NoProbe == [fn |-> "none"]

\* the inputs of the handlers; a mode is named by its AgentMode member,
\* "Autonomous" is a string that is no member, Undef an absent mode
Modes == {"AUTONOMOUS", "RETURN_BYTES", "Autonomous", Undef}

Spenders == {Undef, MAINNET_LENDING_POOL_ADDRESS, "0xc0ffee"}

Flags == {"true", "false", Undef}

OptAccounts == {Undef, "0.0.2002"}

Operators == {Undef, "0.0.1001"}

RateModes == {"stable", "variable"}

\* a map with the two numbers exchanged
RATE_MODE_MAP_Swapped == [stable |-> 2, variable |-> 1]

RATE_MODE_MAP == [stable |-> 1, variable |-> 2]

ParamAmounts == {Amount("string", << 1 >>, << 5 >>), Amount("number", << 2 >>, << >>), NotANumber}

\* what the market service can answer: it throws, or gives a reserve list
\* (symbol and decimals of each reserve that passed its filter)
MarketAnswers == {"error", "empty", "listed"}

ReservesOf(answer) ==
    IF answer = "listed"
    THEN << [symbol |-> "USDC", decimals |-> 6], [symbol |-> "whbar", decimals |-> 8] >>
    ELSE << >>

\* reserves.find(r => r.symbol.toUpperCase() === tokenSymbol.toUpperCase())?.decimals
FindDecimals(reserves, tokenSymbol) ==
    LET hits == SelectSeq(reserves, LAMBDA r : ToUpperCase(r.symbol) = ToUpperCase(tokenSymbol))
    IN IF hits = << >> THEN -1 ELSE hits[1].decimals

\* what the on-chain decimals() query can answer (-1: the query fails)
ChainDecimals == {-1, 6, 18}

\* what AccountInfoQuery can answer
ZeroAddress == "0x0000000000000000000000000000000000000000"

AliasAddress == "0x00000000000000000000000000000000000a11a5"

\* an alias that is too short, and one of 42 characters without the prefix
ShortAlias == "0x0a11a5"

UnprefixedAlias == "0000000000000000000000000000000000000a11a5"

\* "error": the query throws; Undef: info.evmAddress is not a string
AccountInfoAnswers == {"error", AliasAddress, ZeroAddress, ShortAlias, UnprefixedAlias, Undef}

\* a test that forgets the prefix
IsUsableAlias_NoPrefixCheck(evm) ==
    evm # Undef /\ evm # "error" /\ Len(evm) = 42 /\ evm # ZeroAddress

\* typeof evm === "string" && evm.startsWith("0x") && evm.length === 42 && evm !== zero
IsUsableAlias(evm) ==
    /\ evm # Undef
    /\ evm # "error"
    /\ Len(evm) >= 2
    /\ SubSeq(evm, 1, 2) = "0x"
    /\ Len(evm) = 42
    /\ evm # ZeroAddress

\* what tx.execute, getReceipt and freezeWith can do: succeed, throw an
\* Error, or throw a value that is not an Error
LedgerOutcomes == {"ok", "error", "non-error"}

LedgerThrow(o, what) == IF o = "error" THEN SimpleErr("LedgerError", what) ELSE NonError

\* AccountId.fromString(id).toSolidityAddress(), prefixed with 0x
SolidityAddress(id) == "0x" \o id

\* environments of the handler specification
EnvUnset == [v \in EnvVars |-> Undef]

EnvSamples == {EnvUnset, [v \in EnvVars |-> "7"]}

(***************************************************************************)
(* The catch block shared by the five handlers.                            *)
(***************************************************************************)
\* a catch block that prints the error's message and nothing else
CatchBlock_MessageOnly(error, ledger, cache, fileState) ==
    IF ~error.isError
    THEN [result |-> Settled("failed-bare", NoErr, Undef, << >>), cache |-> cache]
    ELSE [result |-> Settled("failed", error, Undef, << >>), cache |-> cache]

\* a catch block that reports every failure with the generic text
CatchBlock_GenericText(error, ledger, cache, fileState) ==
    [result |-> Settled("failed-bare", NoErr, Undef, << >>), cache |-> cache]

CatchBlock(error, ledger, cache, fileState) ==
    IF ~error.isError
    THEN [result |-> Settled("failed-bare", NoErr, Undef, << >>), cache |-> cache]
    ELSE LET nk == getNetworkKey(ledger)
         IN IF ~nk.ok THEN [result |-> Settled("rejected", nk.err, Undef, << >>), cache |-> cache]
            ELSE LET av == getAvailableSymbols(cache, fileState, nk.val)
                 IN IF ~av.ok
                    THEN [result |-> Settled("rejected", av.err, Undef, << >>), cache |-> av.cache]
                    ELSE [result |-> Settled("failed", error, nk.val, Listing(av.val)),
                          cache |-> av.cache]

\* A step of a handler: where it goes next and what it has changed.
Step(p, r, c, t, l, k, i) ==
    [pc |-> p, result |-> r, cache |-> c, tx |-> t, local |-> l, calls |-> k, inv |-> i]

Take(s) ==
    /\ pc' = s.pc
    /\ result' = s.result
    /\ cachedContracts' = s.cache
    /\ tx' = s.tx
    /\ local' = s.local
    /\ calls' = s.calls
    /\ inv' = s.inv
    /\ UNCHANGED << file, env, probe >>

\* the handler returns r
Return(r, c, l, i) == Step("done", r, c, tx, l, calls, i)

\* the handler's try block throws error
Caught(error, c, l, i) ==
    LET cb == CatchBlock(error, i.ledgerId, c, file)
    IN Step("done", cb.result, cb.cache, tx, [l EXCEPT !.error = error, !.thrownAt = pc], calls, i)

(***************************************************************************)
(* The handlers.  An action is the code a handler runs between two awaits. *)
(***************************************************************************)
HasMaxFlag(tool) == tool \in {"approve", "withdraw", "repay"}

HasRateMode(tool) == tool \in {"borrow", "repay"}

\* a handler that converts the literal amount whatever the flag says
AmountWei_IgnoresFlag(i, decimals) == toWei(i.amount, decimals)

\* optional?.withdrawAll ? maxUint256 : toWei(amount, decimals), and the
\* plain toWei(amount, decimals) of deposit and borrow
AmountWei(i, decimals) ==
    IF HasMaxFlag(i.tool) /\ i.maxFlag = "true" THEN Ok(maxUint256)
    ELSE toWei(i.amount, decimals)

\* a resolution that prefers the operator account
AccountIdOf_OperatorFirst(i) == IF i.operator # Undef THEN i.operator ELSE i.optAccount

\* optional?.to || client.operatorAccountId?.toString()
AccountIdOf(i) == IF i.optAccount # Undef THEN i.optAccount ELSE i.operator

\* an assembly that submits whatever the mode
Assemble_AlwaysSubmits(contract, l, i, c) ==
    LET gf == HandlerGasFee(i.tool, env)
        t == [built |-> TRUE, contractId |-> contract, fn |-> i.tool,
              asset |-> IF i.tool = "approve" THEN Undef ELSE l.token,
              spender |-> IF i.tool = "approve" THEN l.spender ELSE Undef,
              account |-> l.account, amount |-> l.amountWei,
              rate |-> IF HasRateMode(i.tool) THEN RATE_MODE_MAP[i.rateMode] ELSE 0,
              gas |-> gf.gas, fee |-> gf.fee]
    IN Step("execute", NoResult, c, t, l, [calls EXCEPT !.txExecute = @ + 1], i)

\* an assembly that freezes for RETURN_BYTES only
Assemble_SubmitsUnlessBytes(contract, l, i, c) ==
    LET gf == HandlerGasFee(i.tool, env)
        t == [built |-> TRUE, contractId |-> contract, fn |-> i.tool,
              asset |-> IF i.tool = "approve" THEN Undef ELSE l.token,
              spender |-> IF i.tool = "approve" THEN l.spender ELSE Undef,
              account |-> l.account, amount |-> l.amountWei,
              rate |-> IF HasRateMode(i.tool) THEN RATE_MODE_MAP[i.rateMode] ELSE 0,
              gas |-> gf.gas, fee |-> gf.fee]
    IN IF i.mode # "RETURN_BYTES"
       THEN Step("execute", NoResult, c, t, l, [calls EXCEPT !.txExecute = @ + 1], i)
       ELSE Step("freeze", NoResult, c, t, l, [calls EXCEPT !.freeze = @ + 1], i)

\* encodeFunctionData, new ContractExecuteTransaction()...setMaxTransactionFee
\* and the branch on context.mode
Assemble(contract, l, i, c) ==
    LET gf == HandlerGasFee(i.tool, env)
        t == [built |-> TRUE, contractId |-> contract, fn |-> i.tool,
              asset |-> IF i.tool = "approve" THEN Undef ELSE l.token,
              spender |-> IF i.tool = "approve" THEN l.spender ELSE Undef,
              account |-> l.account, amount |-> l.amountWei,
              rate |-> IF HasRateMode(i.tool) THEN RATE_MODE_MAP[i.rateMode] ELSE 0,
              gas |-> gf.gas, fee |-> gf.fee]
    IN IF i.mode = "AUTONOMOUS"
       THEN Step("execute", NoResult, c, t, l, [calls EXCEPT !.txExecute = @ + 1], i)
       ELSE Step("freeze", NoResult, c, t, l, [calls EXCEPT !.freeze = @ + 1], i)

\* a tail that sends the call to the token contract
PoolTail_TargetsToken(l, i, c) ==
    LET lp == getLendingPoolAddress(c, file, l.network)
    IN IF ~lp.ok THEN Caught(lp.err, lp.cache, l, i)
       ELSE IF i.tool = "deposit" /\ validateNetworkMismatch(l.network, lp.val)
       THEN Return(Settled("mismatch", NoErr, Undef, << >>), lp.cache, l, i)
       ELSE Assemble(l.token, l, i, lp.cache)

\* getLendingPoolAddress, deposit's network-mismatch check, then assembly
PoolTail(l, i, c) ==
    LET lp == getLendingPoolAddress(c, file, l.network)
    IN IF ~lp.ok THEN Caught(lp.err, lp.cache, l, i)
       ELSE IF i.tool = "deposit" /\ validateNetworkMismatch(l.network, lp.val)
       THEN Return(Settled("mismatch", NoErr, Undef, << >>), lp.cache, l, i)
       ELSE Assemble(lp.val, l, i, lp.cache)

OperatorNotSet == Settled("operator-not-set", NoErr, Undef, << >>)

\* the code of each handler from the resolved decimals to its next await
AfterDecimals(l, i, c) ==
    LET a == AmountWei(i, l.decimals)
        id == AccountIdOf(i)
        la == [l EXCEPT !.amountWei = IF a.ok THEN a.val ELSE << >>]
        lid == [l EXCEPT !.accountId = id, !.account = SolidityAddress(id)]
        laid == [la EXCEPT !.accountId = id, !.account = SolidityAddress(id)]
    IN IF i.tool = "approve"
       THEN IF ~a.ok THEN Caught(a.err, c, l, i) ELSE Assemble(l.token, la, i, c)
       ELSE IF i.tool = "deposit"
       THEN IF ~a.ok THEN Caught(a.err, c, l, i)
            ELSE IF id = Undef THEN Return(OperatorNotSet, c, la, i)
            ELSE Step("accountInfo", NoResult, c, tx, [la EXCEPT !.accountId = id],
                      [calls EXCEPT !.accountInfo = @ + 1], i)
       ELSE IF i.tool = "borrow"
       THEN IF ~a.ok THEN Caught(a.err, c, l, i)
            ELSE IF id = Undef THEN Return(OperatorNotSet, c, la, i)
            ELSE PoolTail(laid, i, c)
       ELSE \* withdraw, repay: the account is resolved before the amount
            IF id = Undef THEN Return(OperatorNotSet, c, l, i)
            ELSE IF ~a.ok THEN Caught(a.err, c, lid, i)
            ELSE PoolTail(laid, i, c)

\* the parameters a handler reads after the decimals are known
ReadParams(i, amount, flag, optAccount, operator, rateMode) ==
    [i EXCEPT !.amount = amount, !.maxFlag = flag, !.optAccount = optAccount,
              !.operator = operator, !.rateMode = rateMode]

ResumeAfterDecimals(l) ==
    \E amount \in ParamAmounts :
    \E flag \in IF HasMaxFlag(inv.tool) THEN Flags ELSE {Unread} :
    \E optAccount \in IF inv.tool = "approve" THEN {Unread} ELSE OptAccounts :
    \E operator \in IF inv.tool = "approve" THEN {Unread} ELSE Operators :
    \E rateMode \in IF HasRateMode(inv.tool) THEN RateModes ELSE {Unread} :
        Take(AfterDecimals(l, ReadParams(inv, amount, flag, optAccount, operator, rateMode),
                           cachedContracts))

\* an entry that checks an explicit spender for the network mismatch too
StartStep_ChecksEverySpender(i) ==
    LET nk == getNetworkKey(i.ledgerId)
    IN IF ~nk.ok THEN Caught(nk.err, cachedContracts, NoLocal, i)
       ELSE LET tok == getTokenAddresses(cachedContracts, file, ToUpperCase(i.tokenSymbol), nk.val)
                l1 == [NoLocal EXCEPT !.network = nk.val]
            IN IF ~tok.ok THEN Caught(tok.err, tok.cache, l1, i)
               ELSE LET l2 == [l1 EXCEPT !.token = tok.val.token]
                        fetching == [calls EXCEPT !.market = @ + 1]
                    IN IF i.tool # "approve"
                       THEN Step("market", NoResult, tok.cache, tx, l2, fetching, i)
                       ELSE IF i.spender # Undef
                       THEN IF validateNetworkMismatch(nk.val, i.spender)
                            THEN Return(Settled("mismatch", NoErr, Undef, << >>), tok.cache,
                                        [l2 EXCEPT !.spender = i.spender], i)
                            ELSE Step("market", NoResult, tok.cache, tx,
                                      [l2 EXCEPT !.spender = i.spender], fetching, i)
                       ELSE LET lp == getLendingPoolAddress(tok.cache, file, nk.val)
                            IN IF ~lp.ok THEN Caught(lp.err, lp.cache, l2, i)
                               ELSE IF validateNetworkMismatch(nk.val, lp.val)
                               THEN Return(Settled("mismatch", NoErr, Undef, << >>), lp.cache,
                                           [l2 EXCEPT !.spender = lp.val], i)
                               ELSE Step("market", NoResult, lp.cache, tx,
                                         [l2 EXCEPT !.spender = lp.val], fetching, i)

\* entry of a handler up to `await BonzoMarketService.fetchReserves()`
StartStep(i) ==
    LET nk == getNetworkKey(i.ledgerId)
    IN IF ~nk.ok THEN Caught(nk.err, cachedContracts, NoLocal, i)
       ELSE LET tok == getTokenAddresses(cachedContracts, file, ToUpperCase(i.tokenSymbol), nk.val)
                l1 == [NoLocal EXCEPT !.network = nk.val]
            IN IF ~tok.ok THEN Caught(tok.err, tok.cache, l1, i)
               ELSE LET l2 == [l1 EXCEPT !.token = tok.val.token]
                        fetching == [calls EXCEPT !.market = @ + 1]
                    IN IF i.tool # "approve"
                       THEN Step("market", NoResult, tok.cache, tx, l2, fetching, i)
                       ELSE IF i.spender # Undef
                       THEN Step("market", NoResult, tok.cache, tx,
                                 [l2 EXCEPT !.spender = i.spender], fetching, i)
                       ELSE LET lp == getLendingPoolAddress(tok.cache, file, nk.val)
                            IN IF ~lp.ok THEN Caught(lp.err, lp.cache, l2, i)
                               ELSE IF validateNetworkMismatch(nk.val, lp.val)
                               THEN Return(Settled("mismatch", NoErr, Undef, << >>), lp.cache,
                                           [l2 EXCEPT !.spender = lp.val], i)
                               ELSE Step("market", NoResult, lp.cache, tx,
                                         [l2 EXCEPT !.spender = lp.val], fetching, i)

Start ==
    /\ pc = "idle"
    /\ \E tool \in Tools, ledgerId \in LedgerIds, mode \in Modes, tokenSymbol \in ParamSymbols :
       \E spender \in IF tool = "approve" THEN Spenders ELSE {Unread} :
          Take(StartStep([NoInv EXCEPT !.tool = tool, !.ledgerId = ledgerId, !.mode = mode,
                                       !.tokenSymbol = tokenSymbol, !.spender = spender]))

\* a handler that gives up when the market service throws
MarketReturn_AbortsOnError ==
    /\ pc = "market"
    /\ \E answer \in MarketAnswers :
          LET d == IF answer = "error" THEN -1
                   ELSE FindDecimals(ReservesOf(answer), inv.tokenSymbol)
              l == [local EXCEPT !.marketAnswer = answer]
          IN IF answer = "error"
             THEN Take(Caught(SimpleErr("PARSE_ERROR", "market"), cachedContracts, l, inv))
             ELSE IF d = -1
             THEN Take(Step("decimals", NoResult, cachedContracts, tx, l,
                            [calls EXCEPT !.decimalsQuery = @ + 1], inv))
             ELSE ResumeAfterDecimals([l EXCEPT !.decimals = d, !.decimalsFrom = "market"])

\* fetchReserves settles
MarketReturn ==
    /\ pc = "market"
    /\ \E answer \in MarketAnswers :
          LET d == IF answer = "error" THEN -1
                   ELSE FindDecimals(ReservesOf(answer), inv.tokenSymbol)
          IN IF d = -1
             THEN Take(Step("decimals", NoResult, cachedContracts, tx,
                            [local EXCEPT !.marketAnswer = answer],
                            [calls EXCEPT !.decimalsQuery = @ + 1], inv))
             ELSE ResumeAfterDecimals([local EXCEPT !.decimals = d, !.decimalsFrom = "market",
                                                    !.marketAnswer = answer])

\* a handler with a maximum flag that goes on without decimals
DecimalsReturn_GoesOnWithoutDecimals ==
    /\ pc = "decimals"
    /\ \E d \in ChainDecimals :
          IF d = -1 /\ ~HasMaxFlag(inv.tool)
          THEN Take(Caught(SimpleErr("DecimalsFailed", local.token), cachedContracts, local, inv))
          ELSE IF d = -1 THEN ResumeAfterDecimals(local)
          ELSE ResumeAfterDecimals([local EXCEPT !.decimals = d, !.decimalsFrom = "chain"])

\* fetchErc20Decimals settles
DecimalsReturn ==
    /\ pc = "decimals"
    /\ \E d \in ChainDecimals :
          IF d = -1
          THEN Take(Caught(SimpleErr("DecimalsFailed", local.token), cachedContracts, local, inv))
          ELSE ResumeAfterDecimals([local EXCEPT !.decimals = d, !.decimalsFrom = "chain"])

\* getEvmAliasAddress settles (deposit)
AccountInfoReturn ==
    /\ pc = "accountInfo"
    /\ \E evm \in AccountInfoAnswers :
          LET account == IF IsUsableAlias(evm) THEN evm ELSE SolidityAddress(local.accountId)
          IN Take(PoolTail([local EXCEPT !.account = account, !.evm = evm], inv, cachedContracts))

\* a handler that submits again when the submission fails
ExecuteReturn_Retries ==
    /\ pc = "execute"
    /\ \E o \in LedgerOutcomes :
          IF o = "ok"
          THEN Take(Step("receipt", NoResult, cachedContracts, tx, local,
                         [calls EXCEPT !.receipt = @ + 1], inv))
          ELSE Take(Step("execute", NoResult, cachedContracts, tx, local,
                         [calls EXCEPT !.txExecute = @ + 1], inv))

\* tx.execute(client) settles
ExecuteReturn ==
    /\ pc = "execute"
    /\ \E o \in LedgerOutcomes :
          IF o = "ok"
          THEN Take(Step("receipt", NoResult, cachedContracts, tx, local,
                         [calls EXCEPT !.receipt = @ + 1], inv))
          ELSE Take(Caught(LedgerThrow(o, "execute"), cachedContracts, local, inv))

\* resp.getReceipt(client) settles
ReceiptReturn ==
    /\ pc = "receipt"
    /\ \E o \in LedgerOutcomes :
          IF o = "ok"
          THEN Take(Return(Settled("submitted", NoErr, Undef, << >>), cachedContracts, local, inv))
          ELSE Take(Caught(LedgerThrow(o, "receipt"), cachedContracts, local, inv))

\* tx.freezeWith(client) of buildTxBytes settles
FreezeReturn ==
    /\ pc = "freeze"
    /\ \E o \in LedgerOutcomes :
          IF o = "ok"
          THEN Take(Return(Settled("bytes", NoErr, Undef, << >>), cachedContracts, local, inv))
          ELSE Take(Caught(LedgerThrow(o, "freeze"), cachedContracts, local, inv))

\* executeBonzoMarketData up to `await BonzoMarketService.fetchSupplyReserves()`
StartMarketData ==
    /\ pc = "idle"
    /\ Take(Step("marketData", NoResult, cachedContracts, tx, local,
                 [calls EXCEPT !.market = @ + 1], [NoInv EXCEPT !.tool = "marketData"]))

\* fetchSupplyReserves settles: formatMarketData's text, or the error text
MarketDataReturn ==
    /\ pc = "marketData"
    /\ \E answer \in MarketAnswers :
          LET l == [local EXCEPT !.marketAnswer = answer]
          IN IF answer = "error"
             THEN Take(Step("done", Settled("failed-market", SimpleErr("BonzoServiceError", "market"),
                                            Undef, << >>),
                            cachedContracts, tx, [l EXCEPT !.thrownAt = pc], calls, inv))
             ELSE Take(Return(Settled("report", NoErr, Undef, << >>), cachedContracts, l, inv))

\* the host takes the result; the process is ready for the next call
Settle ==
    /\ pc = "done"
    /\ pc' = "idle"
    /\ inv' = NoInv
    /\ local' = NoLocal
    /\ tx' = NoTx
    /\ result' = NoResult
    /\ calls' = NoCalls
    /\ UNCHANGED << file, cachedContracts, env, probe >>

Init ==
    /\ file \in FileStates
    /\ cachedContracts = NoCache
    /\ env \in EnvSamples
    /\ pc = "idle"
    /\ inv = NoInv
    /\ local = NoLocal
    /\ tx = NoTx
    /\ result = NoResult
    /\ calls = NoCalls
    /\ probe = NoProbe

Next ==
    \/ Start
    \/ MarketReturn
    \/ DecimalsReturn
    \/ AccountInfoReturn
    \/ ExecuteReturn
    \/ ReceiptReturn
    \/ FreezeReturn
    \/ StartMarketData
    \/ MarketDataReturn
    \/ Settle

Spec == Init /\ [][Next]_vars

(***************************************************************************)
(* toWei applied on its own: the amount and the decimals are drawn by the  *)
(* initial state, ApplyToWei computes the result.                          *)
(***************************************************************************)
DigitSample == {0, 1, 5, 9}

DigitSeqs(lo, hi) == UNION {[1..n -> DigitSample] : n \in lo..hi}

ToWeiAmounts ==
    {Amount(k, int, frac) : k \in {"string", "number"}, int \in DigitSeqs(1, MaxIntDigits),
                            frac \in DigitSeqs(0, MaxFracDigits)}
    \cup {Amount("string", << 1, 0, 0, 0 >>, << >>)}

HandlerIdle ==
    /\ cachedContracts = NoCache
    /\ pc = "idle"
    /\ inv = NoInv
    /\ local = NoLocal
    /\ tx = NoTx
    /\ result = NoResult
    /\ calls = NoCalls

InitToWei ==
    /\ HandlerIdle
    /\ file = "TableOk"
    /\ env = EnvUnset
    /\ \E a \in ToWeiAmounts, d \in 0..MaxDecimals :
          probe = [fn |-> "toWei", amount |-> a, decimals |-> d, applied |-> FALSE,
                   out |-> Ok(<< >>)]

ApplyToWei ==
    /\ probe.fn = "toWei"
    /\ ~probe.applied
    /\ probe' = [probe EXCEPT !.applied = TRUE, !.out = toWei(probe.amount, probe.decimals)]
    /\ UNCHANGED << file, cachedContracts, env, pc, inv, local, tx, result, calls >>

NextToWei == ApplyToWei

SpecToWei == InitToWei /\ [][NextToWei]_vars

(***************************************************************************)
(* maxUint256 beside toWei: the amount and the decimals are drawn by the   *)
(* initial state, with decimals that bring the result to either side of    *)
(* the largest 256-bit value; ApplyMaxUnits reads the constant and         *)
(* converts the amount.                                                    *)
(***************************************************************************)
WideDecimals == {0, 18, 76, 77, 78}

InitMaxUnits ==
    /\ HandlerIdle
    /\ file = "TableOk"
    /\ env = EnvUnset
    /\ \E a \in ToWeiAmounts, d \in WideDecimals :
          probe = [fn |-> "maxUnits", amount |-> a, decimals |-> d, applied |-> FALSE,
                   max |-> << >>, out |-> Ok(<< >>)]

ApplyMaxUnits ==
    /\ probe.fn = "maxUnits"
    /\ ~probe.applied
    /\ probe' = [probe EXCEPT !.applied = TRUE, !.max = maxUint256,
                              !.out = toWei(probe.amount, probe.decimals)]
    /\ UNCHANGED << file, cachedContracts, env, pc, inv, local, tx, result, calls >>

NextMaxUnits == ApplyMaxUnits

SpecMaxUnits == InitMaxUnits /\ [][NextMaxUnits]_vars

(***************************************************************************)
(* Gas and fee selection applied on its own: the handler and the           *)
(* environment are drawn by the initial state (variables the handler does  *)
(* not concern are left unset), ApplyGas computes what defaultGasAndFee    *)
(* returns for the handler's tier and what the handler uses.               *)
(***************************************************************************)
ActionVars(tool) ==
    IF tool = "approve" THEN {"BONZO_GAS_APPROVE", "BONZO_MAX_FEE_HBAR_APPROVE"}
    ELSE IF tool = "deposit" THEN {"BONZO_GAS_DEPOSIT", "BONZO_MAX_FEE_HBAR_DEPOSIT"}
    ELSE IF tool = "withdraw" THEN {"BONZO_GAS_WITHDRAW", "BONZO_MAX_FEE_HBAR_WITHDRAW"}
    ELSE IF tool = "repay" THEN {"BONZO_GAS_REPAY", "BONZO_MAX_FEE_HBAR_REPAY"}
    ELSE {}

TierVar(tool) == IF TierOf(tool) = "light" THEN "BONZO_GAS_LIGHT" ELSE "BONZO_GAS_HEAVY"

GasVars(tool) == {TierVar(tool), "BONZO_MAX_FEE_HBAR"} \cup ActionVars(tool)

InitGas ==
    /\ HandlerIdle
    /\ file = "TableOk"
    /\ \E tool \in Tools :
       \E f \in [GasVars(tool) -> EnvValues] :
          /\ env = [v \in EnvVars |-> IF v \in GasVars(tool) THEN f[v] ELSE Undef]
          /\ probe = [fn |-> "gas", tool |-> tool, applied |-> FALSE,
                      base |-> [gas |-> 0, fee |-> 0], used |-> [gas |-> 0, fee |-> 0]]

ApplyGas ==
    /\ probe.fn = "gas"
    /\ ~probe.applied
    /\ probe' = [probe EXCEPT !.applied = TRUE,
                              !.base = defaultGasAndFee(TierOf(probe.tool), env),
                              !.used = HandlerGasFee(probe.tool, env)]
    /\ UNCHANGED << file, cachedContracts, env, pc, inv, local, tx, result, calls >>

NextGas == ApplyGas

SpecGas == InitGas /\ [][NextGas]_vars

(***************************************************************************)
(* The market service (BonzoMarketService).  Money is kept in cents, APYs  *)
(* in hundredths of a percent.  A raw reserve of the response body is an   *)
(* object or null; a monetary value of a raw reserve is a BonzoValue with  *)
(* its usd_display string, a BonzoValue without usd_display, or absent.    *)
(***************************************************************************)
MaxReserves == 3

NoUsdDisplay == "<no usd_display>"

\* the usd_display strings of the model
UsdDisplays == {"1,250.50", "100.00", "100.01", "99.99", "abc", ""}

\* a monetary field: Undef (no value object), NoUsdDisplay, or a usd_display
BonzoValues == {Undef, NoUsdDisplay} \cup UsdDisplays

\* usdString.replace(/,/g, '')
StripCommas(str) == IF str = "1,250.50" THEN "1250.50" ELSE str

\* parseFloat, in cents; NaN for a string that starts with no number
ParseFloat(str) ==
    IF str = "1250.50" THEN [nan |-> FALSE, cents |-> 125050]
    ELSE IF str = "100.00" THEN [nan |-> FALSE, cents |-> 10000]
    ELSE IF str = "100.01" THEN [nan |-> FALSE, cents |-> 10001]
    ELSE IF str = "99.99" THEN [nan |-> FALSE, cents |-> 9999]
    ELSE [nan |-> TRUE, cents |-> 0]

\* value.usd_display.replace throws a TypeError when value or usd_display
\* is undefined; the catch returns 0
parseUSDValue(value) ==
    IF value = Undef \/ value = NoUsdDisplay THEN 0
    ELSE LET parsed == ParseFloat(StripCommas(value))
         IN IF parsed.nan THEN 0 ELSE parsed.cents

Raw(symbol, active, frozen, borrowing, liquidity, supply, debt, supplyApy, borrowApy) ==
    [isNull |-> FALSE, symbol |-> symbol, active |-> active, frozen |-> frozen,
     variable_borrowing_enabled |-> borrowing, available_liquidity |-> liquidity,
     total_supply |-> supply, total_variable_debt |-> debt, total_stable_debt |-> debt,
     supply_apy |-> supplyApy, variable_borrow_apy |-> borrowApy]

\* a null element of the reserves array
NullReserve ==
    [isNull |-> TRUE, symbol |-> Undef, active |-> FALSE, frozen |-> FALSE,
     variable_borrowing_enabled |-> FALSE, available_liquidity |-> Undef,
     total_supply |-> Undef, total_variable_debt |-> Undef, total_stable_debt |-> Undef,
     supply_apy |-> 0, variable_borrow_apy |-> 0]

\* the raw reserves of the model
RawSamples ==
    { Raw("USDC", TRUE, FALSE, TRUE, "1,250.50", "1,250.50", "100.00", 500, 700),
      Raw("WHBAR", TRUE, FALSE, TRUE, "100.00", "1,250.50", "99.99", 500, 300),
      Raw("SAUCE", TRUE, FALSE, FALSE, "100.01", "abc", "", 900, 300),
      Raw("HBARX", TRUE, TRUE, TRUE, "1,250.50", "1,250.50", "100.00", 900, 100),
      Raw("KARATE", FALSE, FALSE, TRUE, "1,250.50", "1,250.50", "100.00", 100, 100),
      Raw("DOVU", TRUE, FALSE, TRUE, "99.99", "100.00", "100.00", 700, 500),
      Raw("PACK", TRUE, FALSE, TRUE, Undef, NoUsdDisplay, "abc", 700, 500),
      Raw("XSAUCE", TRUE, FALSE, TRUE, "1,250.50", NoUsdDisplay, Undef, 500, 700),
      NullReserve }

\* the object literal of normalizeReserves' map callback
NormalizeOne(raw) ==
    [symbol |-> raw.symbol,
     supplyAPY |-> raw.supply_apy,
     variableBorrowAPY |-> raw.variable_borrow_apy,
     availableLiquidityUSD |-> parseUSDValue(raw.available_liquidity),
     totalSupplyUSD |-> parseUSDValue(raw.total_supply),
     totalBorrowUSD |-> parseUSDValue(raw.total_variable_debt) + parseUSDValue(raw.total_stable_debt),
     isActive |-> raw.active,
     isFrozen |-> raw.frozen,
     borrowingEnabled |-> raw.variable_borrowing_enabled]

\* a normalisation that gives up on a reserve with a missing monetary value
normalizeReserves_FailsOnBadValue(rawReserves) ==
    IF \E i \in 1..Len(rawReserves) :
          \/ rawReserves[i].isNull
          \/ rawReserves[i].available_liquidity \in {Undef, NoUsdDisplay}
          \/ rawReserves[i].total_supply \in {Undef, NoUsdDisplay}
          \/ rawReserves[i].total_variable_debt \in {Undef, NoUsdDisplay}
    THEN Throw(SimpleErr("PARSE_ERROR", "TypeError"))
    ELSE Ok([i \in 1..Len(rawReserves) |-> NormalizeOne(rawReserves[i])])

\* rawReserves.map(...): reading a property of a null element throws, and so
\* does the raw.symbol of the catch block's message, so a TypeError leaves
normalizeReserves(rawReserves) ==
    IF \E i \in 1..Len(rawReserves) : rawReserves[i].isNull
    THEN Throw(SimpleErr("TypeError", "raw.symbol"))
    ELSE Ok([i \in 1..Len(rawReserves) |-> NormalizeOne(rawReserves[i])])

\* USD
LiquidityFloorUSD == 100

filterActiveReserves(reserves, includeBorrowingDisabled) ==
    SelectSeq(reserves,
              LAMBDA reserve :
                  IF ~reserve.isActive \/ reserve.isFrozen THEN FALSE
                  ELSE IF ~includeBorrowingDisabled /\ ~reserve.borrowingEnabled THEN FALSE
                  ELSE IF reserve.availableLiquidityUSD < LiquidityFloorUSD * 100 THEN FALSE
                  ELSE TRUE)

\* Array.prototype.sort with a comparator that is the difference of two
\* numbers: ascending by key, elements of equal key in their input order.
\* Keyed elements are [key, item].
RECURSIVE InsertKeyed_AfterEquals(_, _)
InsertKeyed_AfterEquals(x, sorted) ==
    IF sorted = << >> THEN << x >>
    ELSE IF Head(sorted).key <= x.key
         THEN << Head(sorted) >> \o InsertKeyed_AfterEquals(x, Tail(sorted))
    ELSE << x >> \o sorted

\* x, which precedes every element of sorted in the input, passes only the
\* elements of strictly smaller key
RECURSIVE InsertKeyed(_, _)
InsertKeyed(x, sorted) ==
    IF sorted = << >> THEN << x >>
    ELSE IF Head(sorted).key < x.key
         THEN << Head(sorted) >> \o InsertKeyed(x, Tail(sorted))
    ELSE << x >> \o sorted

RECURSIVE StableSort(_)
StableSort(keyed) ==
    IF keyed = << >> THEN << >>
    ELSE InsertKeyed(Head(keyed), StableSort(Tail(keyed)))

Items(keyed) == [i \in 1..Len(keyed) |-> keyed[i].item]

\* [...reserves].sort((a, b) => b.supplyAPY - a.supplyAPY); arg is the
\* argument array after the call, out the array returned
sortReservesBySupplyAPY(reserves) ==
    [arg |-> reserves,
     out |-> Items(StableSort([i \in 1..Len(reserves) |->
                                  [key |-> -reserves[i].supplyAPY, item |-> reserves[i]]]))]

\* [...reserves].sort((a, b) => a.variableBorrowAPY - b.variableBorrowAPY)
sortReservesByBorrowAPY(reserves) ==
    [arg |-> reserves,
     out |-> Items(StableSort([i \in 1..Len(reserves) |->
                                  [key |-> reserves[i].variableBorrowAPY, item |-> reserves[i]]]))]

\* new BonzoServiceError(message, code, originalError)
ServiceCodes == {"API_ERROR", "PARSE_ERROR", "NETWORK_ERROR"}

BonzoServiceError(code, originalError) == SimpleErr(code, originalError)

\* error instanceof BonzoServiceError
IsServiceError(error) == error.isError /\ error.code \in ServiceCodes

\* the catch block of fetchMarketData; a plain Error is named by its code
fetchMarketDataCatch(error) ==
    IF IsServiceError(error) THEN error
    ELSE IF error.isError
         THEN IF error.code = "AbortError"
              THEN BonzoServiceError("NETWORK_ERROR", "AbortError")
              ELSE BonzoServiceError("NETWORK_ERROR", error.code)
    ELSE BonzoServiceError("API_ERROR", "unknown")

\* the catch block of fetchReserves, fetchSupplyReserves, fetchBorrowReserves
fetchReservesCatch(error) ==
    IF IsServiceError(error) THEN error ELSE BonzoServiceError("PARSE_ERROR", error.code)

MarketOps == {"fetchReserves", "fetchSupplyReserves", "fetchBorrowReserves"}

\* how `await fetch(...)` settles: the timer aborts it, the transport fails,
\* or a response arrives with a status
FetchOutcomes == {"timeout", "transport", "status-503", "status-200"}

\* how `await response.json()` settles: the body is not JSON, the transport
\* fails while the body is read, the JSON has no reserves array, or it has
JsonOutcomes == {"invalid-json", "body-transport", "no-reserves", "reserves"}

ReserveLists == UNION {[1..n -> RawSamples] : n \in 0..MaxReserves}

NoSort == [arg |-> << >>, out |-> << >>]

\* stage: the await the operation is suspended at; cause: what went wrong
\* in fetchMarketData; data: whether fetchMarketData returned
MarketProbe(op) ==
    [fn |-> "market", op |-> op, stage |-> "fetch", cause |-> "none", data |-> FALSE,
     ok |-> FALSE, err |-> NoErr, raws |-> << >>, normalized |-> << >>,
     includeBorrowingDisabled |-> TRUE, filtered |-> << >>, sorted |-> NoSort,
     out |-> << >>]

\* fetchMarketData throws error: the operation's own catch block sees the
\* BonzoServiceError fetchMarketData made of it
MarketFails(cause, error) ==
    [probe EXCEPT !.stage = "done", !.cause = cause,
                  !.err = fetchReservesCatch(fetchMarketDataCatch(error))]

\* the code of the three operations after fetchMarketData has returned
ProcessReserves(p, hasReserves, raws) ==
    LET n == IF hasReserves THEN normalizeReserves(raws)
             ELSE Throw(SimpleErr("TypeError", "rawReserves.map"))
        include == p.op # "fetchBorrowReserves"
    IN IF ~n.ok
       THEN [p EXCEPT !.stage = "done", !.data = TRUE, !.raws = raws,
                      !.err = fetchReservesCatch(n.err)]
       ELSE LET f == filterActiveReserves(n.val, include)
                srt == IF p.op = "fetchSupplyReserves" THEN sortReservesBySupplyAPY(f)
                       ELSE IF p.op = "fetchBorrowReserves" THEN sortReservesByBorrowAPY(f)
                       ELSE [arg |-> f, out |-> f]
            IN [p EXCEPT !.stage = "done", !.data = TRUE, !.ok = TRUE, !.raws = raws,
                         !.normalized = n.val, !.includeBorrowingDisabled = include,
                         !.filtered = f, !.sorted = srt, !.out = srt.out]

InitMarket ==
    /\ HandlerIdle
    /\ file = "TableOk"
    /\ env = EnvUnset
    /\ \E op \in MarketOps : probe = MarketProbe(op)

HandlerUnchanged == UNCHANGED << file, cachedContracts, env, pc, inv, local, tx, result, calls >>

\* `await fetch(this.API_URL, ...)` settles
FetchSettles ==
    /\ probe.fn = "market"
    /\ probe.stage = "fetch"
    /\ \E o \in FetchOutcomes :
          probe' = IF o = "timeout" THEN MarketFails("timeout", SimpleErr("AbortError", "abort"))
                   ELSE IF o = "transport" THEN MarketFails("transport", SimpleErr("TypeError", "fetch failed"))
                   ELSE IF o = "status-503"
                        THEN MarketFails("status", BonzoServiceError("API_ERROR", "503"))
                   ELSE [probe EXCEPT !.stage = "json"]
    /\ HandlerUnchanged

\* `await response.json()` settles, and the operation runs to its end
JsonSettles ==
    /\ probe.fn = "market"
    /\ probe.stage = "json"
    /\ \E o \in JsonOutcomes :
          IF o = "invalid-json"
          THEN probe' = MarketFails("unparseable-body", SimpleErr("SyntaxError", "Unexpected token"))
          ELSE IF o = "body-transport"
          THEN probe' = MarketFails("transport", SimpleErr("TypeError", "terminated"))
          ELSE IF o = "no-reserves"
          THEN probe' = ProcessReserves(probe, FALSE, << >>)
          ELSE \E raws \in ReserveLists : probe' = ProcessReserves(probe, TRUE, raws)
    /\ HandlerUnchanged

NextMarket == FetchSettles \/ JsonSettles

SpecMarket == InitMarket /\ [][NextMarket]_vars

(***************************************************************************)
(* The contract directory under concurrent invocations.  A handler runs    *)
(* to its next await without interruption, so concurrent invocations       *)
(* interleave the segments in which they use the directory: the entry      *)
(* segment resolves the token, the segment after the awaits resolves the   *)
(* lending pool, and each may end in the catch block, which lists the      *)
(* available symbols.  The file may change between two segments.           *)
(***************************************************************************)
MaxInvocations == 2

Invocations == 1..MaxInvocations

DirFileStates == FileStates \cup {FalsyJson}

DirSymbols == {"WHBAR", "USDC", "SAUCE", "DOGE"}

DirLedgers == {"mainnet", "testnet"}

NoAddresses == [token |-> Undef, aToken |-> Undef, stableDebt |-> Undef, variableDebt |-> Undef]

\* what a call of getTokenAddresses gave: the addresses or the error
Outcome(r) ==
    IF r.ok THEN [ok |-> TRUE, val |-> r.val, err |-> NoErr]
    ELSE [ok |-> FALSE, val |-> NoAddresses, err |-> r.err]

Unseen == [ok |-> FALSE, val |-> NoAddresses, err |-> NoErr]

\* at, ledger: where each invocation is and the network of its client;
\* loaded: the table the cache was first given; first: one call of
\* getTokenAddresses made once the cache was loaded, and what it gave;
\* repeated: the same call was made again; repeatable: every such call gave
\* the same; readAfterLoad: the file was read while the cache held a table
DirProbe ==
    [fn |-> "dir",
     at |-> [k \in Invocations |-> "idle"],
     ledger |-> [k \in Invocations |-> "mainnet"],
     loaded |-> Undef,
     first |-> [symbol |-> Undef, network |-> Undef, outcome |-> Unseen],
     repeated |-> FALSE,
     repeatable |-> TRUE,
     readAfterLoad |-> FALSE]

\* a directory helper called with cache c reads the file although c is set
ReadsAgain(c) == c # NoCache /\ loadContracts(c, file).read

\* the cache after a segment, and the bookkeeping of the first load
Store(p, c) ==
    [p EXCEPT !.loaded = IF p.loaded = Undef /\ c # NoCache THEN c ELSE p.loaded]

InitDir ==
    /\ HandlerIdle
    /\ file \in DirFileStates
    /\ env = EnvUnset
    /\ probe = DirProbe

DirUnchanged == UNCHANGED << env, pc, inv, local, tx, result, calls >>

\* entry segment of a handler: getNetworkKey, getTokenAddresses, and the
\* catch block when the token does not resolve
DirStart(k) ==
    /\ probe.fn = "dir"
    /\ probe.at[k] = "idle"
    /\ \E symbol \in DirSymbols, ledger \in DirLedgers, remember \in BOOLEAN :
          LET network == getNetworkKey(ledger).val
              tok == getTokenAddresses(cachedContracts, file, symbol, network)
              after == IF tok.ok THEN tok.cache
                       ELSE CatchBlock(tok.err, ledger, tok.cache, file).cache
              again == ReadsAgain(cachedContracts) \/ (~tok.ok /\ ReadsAgain(tok.cache))
              p1 == [probe EXCEPT !.at[k] = IF tok.ok THEN "awaiting" ELSE "done",
                                  !.ledger[k] = ledger,
                                  !.readAfterLoad = @ \/ again]
              p2 == IF tok.cache = NoCache THEN p1
                    ELSE IF probe.first.outcome = Unseen
                    THEN IF remember
                         THEN [p1 EXCEPT !.first = [symbol |-> symbol, network |-> network,
                                                    outcome |-> Outcome(tok)]]
                         ELSE p1
                    ELSE IF probe.first.symbol = symbol /\ probe.first.network = network
                    THEN [p1 EXCEPT !.repeated = TRUE,
                                    !.repeatable = @ /\ Outcome(tok) = probe.first.outcome]
                    ELSE p1
          IN /\ (remember => tok.cache # NoCache /\ probe.first.outcome = Unseen)
             /\ probe' = Store(p2, after)
             /\ cachedContracts' = after
    /\ UNCHANGED file
    /\ DirUnchanged

\* segment after the awaits: getLendingPoolAddress, or the catch block after
\* a collaborator has thrown
DirResume(k) ==
    /\ probe.fn = "dir"
    /\ probe.at[k] = "awaiting"
    /\ \E way \in {"pool", "thrown"} :
          LET ledger == probe.ledger[k]
              lp == getLendingPoolAddress(cachedContracts, file, getNetworkKey(ledger).val)
              after == IF way = "thrown"
                       THEN CatchBlock(SimpleErr("LedgerError", "execute"), ledger,
                                       cachedContracts, file).cache
                       ELSE IF lp.ok THEN lp.cache
                       ELSE CatchBlock(lp.err, ledger, lp.cache, file).cache
              again == ReadsAgain(cachedContracts) \/ (way = "pool" /\ ~lp.ok /\ ReadsAgain(lp.cache))
          IN /\ probe' = Store([probe EXCEPT !.at[k] = "done", !.readAfterLoad = @ \/ again], after)
             /\ cachedContracts' = after
    /\ UNCHANGED file
    /\ DirUnchanged

\* the invocation is over; the host may call again
DirFinish(k) ==
    /\ probe.fn = "dir"
    /\ probe.at[k] = "done"
    /\ probe' = [probe EXCEPT !.at[k] = "idle"]
    /\ UNCHANGED << file, cachedContracts >>
    /\ DirUnchanged

\* bonzo-contracts.json is replaced, removed or damaged
FileChanges ==
    /\ probe.fn = "dir"
    /\ \E f \in DirFileStates \ {file} : file' = f
    /\ UNCHANGED << cachedContracts, probe >>
    /\ DirUnchanged

NextDir ==
    \/ \E k \in Invocations : DirStart(k)
    \/ \E k \in Invocations : DirResume(k)
    \/ \E k \in Invocations : DirFinish(k)
    \/ FileChanges

SpecDir == InitDir /\ [][NextDir]_vars

(***************************************************************************)
(* Properties.                                                             *)
(***************************************************************************)

\* C1: in freeze mode (context.mode = RETURN_BYTES) no handler ever calls
\* tx.execute or waits for a receipt, and an invocation that ends with a
\* handleResponse result ends with the bytes of a transaction frozen once.
C1_FreezeNeverSubmits ==
    inv.mode = "RETURN_BYTES" =>
        /\ calls.txExecute = 0
        /\ calls.receipt = 0
        /\ pc \notin {"execute", "receipt"}
        /\ result.kind # "submitted"
        /\ (tx.built /\ pc # "done" => pc = "freeze")
        /\ (result.kind = "bytes" => tx.built /\ calls.freeze = 1)

C1_Witness ==
    /\ pc = "done"
    /\ inv.mode = "RETURN_BYTES"
    /\ result.kind = "bytes"
    /\ calls.freeze = 1
    /\ calls.txExecute = 0

C3_NothingPropagates == result.kind # "rejected"

\* C4: a deposit, or an approve without explicit spender, on testnet
\* against a directory whose lending pool is the mainnet pool makes no
\* ledger call at all, and once the token is resolved it ends with the
\* network-mismatch message.
LedgerCalls == calls.decimalsQuery + calls.accountInfo + calls.freeze + calls.txExecute + calls.receipt

MismatchSetting ==
    /\ inv.ledgerId = "testnet"
    /\ cachedContracts = "TableMismatch"
    /\ \/ inv.tool = "deposit"
       \/ inv.tool = "approve" /\ inv.spender = Undef

C4_MismatchBeforeAnyLedgerCall ==
    MismatchSetting =>
        /\ LedgerCalls = 0
        /\ (pc = "done" /\ local.token # Undef => result.kind = "mismatch")

\* C5: with the maximum flag set (withdrawAll, useMax, repayAll) the amount
\* encoded in the call is maxUint256 whatever the literal amount and the
\* decimals; with the flag false or absent it is toWei(amount, decimals).
C5_MaxFlagSelectsAmount ==
    (tx.built /\ HasMaxFlag(inv.tool)) =>
        IF inv.maxFlag = "true"
        THEN tx.amount = maxUint256
        ELSE /\ inv.maxFlag \in {"false", Undef}
             /\ toWei(inv.amount, local.decimals).ok
             /\ tx.amount = toWei(inv.amount, local.decimals).val

C5_Witness ==
    /\ tx.built
    /\ inv.tool = "withdraw"
    /\ inv.maxFlag = "true"
    /\ inv.amount = NotANumber
    /\ local.decimals = 18
    /\ Len(tx.amount) = 78

\* C6: for a non-negative decimal amount a = N / 10^k and decimals d in
\* 0..18, toWei(a, d) is the integer r with r <= a * 10^d < r + 1, that is
\* r * 10^k <= N * 10^d < (r + 1) * 10^k; toWei("1000", 6) = 1000000000 and
\* toWei("0.1", 18) = 100000000000000000.
Shifted(ds, n) == StripZeros(ds \o Zeros(n))

IsFloorOf(r, a, d) ==
    LET N == a.int \o a.frac
        k == Len(a.frac)
    IN /\ BigLeq(Shifted(r, k), Shifted(N, d))
       /\ BigLess(Shifted(N, d), Shifted(BigSucc(r), k))

C6_ToWeiIsFloor ==
    (probe.fn = "toWei" /\ probe.applied) =>
        /\ probe.out.ok
        /\ IsFloorOf(probe.out.val, probe.amount, probe.decimals)
        /\ (probe.amount = Amount("string", << 1, 0, 0, 0 >>, << >>) /\ probe.decimals = 6
              => probe.out.val = << 1, 0, 0, 0, 0, 0, 0, 0, 0, 0 >>)
        /\ (probe.amount = Amount("string", << 0 >>, << 1 >>) /\ probe.decimals = 18
              => probe.out.val = << 1 >> \o Zeros(17))

C6_Witness ==
    /\ probe.fn = "toWei"
    /\ probe.applied
    /\ probe.amount = Amount("number", << 1, 9 >>, << 9, 5 >>)
    /\ probe.decimals = 1
    /\ probe.out.val = << 1, 9, 9 >>

\* C7: the gas limit of every assembled transaction is a strictly positive
\* integer, for every handler and every environment.
C7_GasPositive == tx.built => tx.gas > 0

\* C8: an unset or non-numeric override leaves the built-in default:
\* defaultGasAndFee gives the tier's built-in gas limit when BONZO_GAS_LIGHT
\* / BONZO_GAS_HEAVY is unset or non-numeric and 2 HBAR when
\* BONZO_MAX_FEE_HBAR is unset or non-numeric, and withdraw and repay use
\* the tier value when their own variables are unset or non-numeric.
UnsetOrNonNumeric(v) == v \in {Undef, "abc"}

BuiltInGas(tool) == IF TierOf(tool) = "light" THEN DefaultGasLight ELSE DefaultGasHeavy

C8_FallbackToDefaults ==
    (probe.fn = "gas" /\ probe.applied) =>
        /\ (UnsetOrNonNumeric(env[TierVar(probe.tool)]) => probe.base.gas = BuiltInGas(probe.tool))
        /\ (UnsetOrNonNumeric(env["BONZO_MAX_FEE_HBAR"]) => probe.base.fee = DefaultFeeHbar * 10)
        /\ (probe.tool \in {"withdraw", "repay"} =>
               /\ (\A v \in ActionVars(probe.tool) : UnsetOrNonNumeric(env[v]))
                      => probe.used = probe.base)

\* What the directory says about the symbol a handler resolved.
Resolving == inv.tool # Unread /\ local.network # Undef /\ cachedContracts \in Tables

ResolvedSymbol == ToUpperCase(inv.tokenSymbol)

DirectoryNet ==
    LET t == TableOf(cachedContracts)
    IN IF ResolvedSymbol \in Keys(t)
       THEN (CHOOSE e \in Range(t) : e.key = ResolvedSymbol)[local.network]
       ELSE NoNet

InDirectory == ResolvedSymbol \in Keys(TableOf(cachedContracts))

HasTokenAddress == InDirectory /\ DirectoryNet.defined /\ IsNonEmptyString(DirectoryNet.token)

\* the symbols with a non-empty token address on the network, as a set
AvailableSet(table, network) ==
    {e.key : e \in {x \in Range(table) : x[network].defined /\ IsNonEmptyString(x[network].token)}}

IsAscending(list) ==
    \A a, b \in 1..Len(list) : a < b => KeyRank(list[a]) < KeyRank(list[b])

\* C9 as stated: a symbol absent from the directory fails with the
\* not-found error, a symbol present without a non-empty token address on
\* the network fails with the not-available error whose list never holds
\* the symbol, and addresses are returned only for a non-empty address.
C9_Original ==
    Resolving =>
        /\ (~InDirectory => local.error.code = "NotFound")
        /\ (InDirectory /\ ~HasTokenAddress =>
               /\ local.error.code = "NotAvailable"
               /\ ResolvedSymbol \notin Range(local.error.available))
        /\ (local.token # Undef => HasTokenAddress /\ local.token = DirectoryNet.token)

\* C9 amended: a present symbol fails with the not-configured error, which
\* carries no list, when it has no entry for the network, and with the
\* not-available error whose list never holds the symbol when the entry
\* has no or an empty token address.
C9_ResolutionFailures ==
    Resolving =>
        /\ (~InDirectory => local.error.code = "NotFound")
        /\ (InDirectory /\ ~DirectoryNet.defined =>
               /\ local.error.code = "NotConfigured"
               /\ local.error.available = << >>)
        /\ (InDirectory /\ DirectoryNet.defined /\ ~HasTokenAddress =>
               /\ local.error.code = "NotAvailable"
               /\ local.error.available # << >>
               /\ ResolvedSymbol \notin Range(local.error.available))
        /\ (local.token # Undef => HasTokenAddress /\ local.token = DirectoryNet.token)
        /\ (HasTokenAddress => local.token = DirectoryNet.token)

C9_Witness ==
    /\ pc = "done"
    /\ Resolving
    /\ ResolvedSymbol = "SAUCE"
    /\ local.network = "hedera_testnet"
    /\ local.error.code = "NotAvailable"
    /\ local.error.available = << "HBARX", "WHBAR" >>

\* the symbols configured on the network, ascending, as a message prints them
IsSortedListing(list, table, network) ==
    IF AvailableSet(table, network) = {} THEN list = << "<none>" >>
    ELSE /\ Range(list) = AvailableSet(table, network)
         /\ Len(list) = Cardinality(AvailableSet(table, network))
         /\ IsAscending(list)

NoNetworkEntry == Resolving /\ InDirectory /\ ~DirectoryNet.defined

\* C10 as stated: resolving a symbol that has no entry for the active
\* network fails with a not-configured error whose message lists the
\* symbols configured on that network in ascending order.
C10_Original ==
    NoNetworkEntry =>
        /\ local.error.code = "NotConfigured"
        /\ IsSortedListing(local.error.available, TableOf(cachedContracts), local.network)

\* C10 amended: the not-configured error names the symbol and the network
\* and lists nothing; the failure string the handler returns for it names
\* the network and lists the symbols configured there in ascending order.
C10_HandlerListsConfigured ==
    NoNetworkEntry =>
        /\ local.error.code = "NotConfigured"
        /\ local.error.symbol = ResolvedSymbol
        /\ local.error.network = local.network
        /\ local.error.available = << >>
        /\ result.kind = "failed"
        /\ result.error = local.error
        /\ result.network = local.network
        /\ IsSortedListing(result.available, TableOf(cachedContracts), local.network)

C10_Witness ==
    /\ pc = "done"
    /\ NoNetworkEntry
    /\ ResolvedSymbol = "USDC"
    /\ local.network = "hedera_testnet"
    /\ cachedContracts = "TableOk"
    /\ result.available = << "HBARX", "WHBAR" >>

\* fetchMarketData has thrown and the operation has ended
MarketDataFailed == probe.fn = "market" /\ probe.stage = "done" /\ ~probe.data

\* C11: fetchMarketData fails with API_ERROR for a non-2xx status, with
\* NETWORK_ERROR for a timeout or a transport failure and with PARSE_ERROR
\* for a body that cannot be parsed, so no two causes share a code.
C11_FailureKindsDistinct ==
    MarketDataFailed =>
        /\ (probe.cause = "status" => probe.err.code = "API_ERROR")
        /\ (probe.cause \in {"timeout", "transport"} => probe.err.code = "NETWORK_ERROR")
        /\ (probe.cause = "unparseable-body" => probe.err.code = "PARSE_ERROR")

\* the operation has returned a list
MarketReturned == probe.fn = "market" /\ probe.stage = "done" /\ probe.ok

\* C17: filterActiveReserves keeps, in input order, exactly the reserves
\* that are active, not frozen, have liquidity strictly above 100 USD and,
\* unless includeBorrowingDisabled, have borrowing enabled.
C17_KeepsStrictlyAboveFloor ==
    MarketReturned =>
        probe.filtered =
            SelectSeq(probe.normalized,
                      LAMBDA r : /\ r.isActive
                                 /\ ~r.isFrozen
                                 /\ r.availableLiquidityUSD > 100 * 100
                                 /\ (probe.includeBorrowingDisabled \/ r.borrowingEnabled))

\* a monetary value that is missing, lacks usd_display or does not parse
IsBadValue(v) == v \in {Undef, NoUsdDisplay, "abc", ""}

\* C18: for every list of raw reserve objects normalizeReserves returns one
\* reserve per element, in order, and a monetary field whose value object
\* is missing, lacks usd_display or holds an unparseable string is 0.
C18_BadValuesDegradeToZero ==
    (probe.fn = "market" /\ probe.stage = "done" /\ probe.data
       /\ probe.raws # << >> /\ \A i \in 1..Len(probe.raws) : ~probe.raws[i].isNull) =>
        /\ probe.ok
        /\ Len(probe.normalized) = Len(probe.raws)
        /\ \A i \in 1..Len(probe.raws) :
              LET raw == probe.raws[i]
                  r == probe.normalized[i]
              IN /\ r.symbol = raw.symbol
                 /\ (IsBadValue(raw.available_liquidity) => r.availableLiquidityUSD = 0)
                 /\ (IsBadValue(raw.total_supply) => r.totalSupplyUSD = 0)
                 /\ (IsBadValue(raw.total_variable_debt) /\ IsBadValue(raw.total_stable_debt)
                        => r.totalBorrowUSD = 0)
                 /\ (~IsBadValue(raw.available_liquidity) => r.availableLiquidityUSD > 0)

C18_Witness ==
    /\ MarketReturned
    /\ Len(probe.raws) = 2
    /\ probe.raws[1].symbol = "PACK"
    /\ probe.raws[2].symbol = "USDC"
    /\ Len(probe.normalized) = 2
    /\ probe.normalized[1].availableLiquidityUSD = 0
    /\ probe.normalized[1].totalSupplyUSD = 0
    /\ probe.normalized[2].availableLiquidityUSD = 125050

\* the elements of s whose key is k, in their order in s
WithKey(s, keys, k) ==
    LET idx == SelectSeq([i \in 1..Len(s) |-> i], LAMBDA i : keys[i] = k)
    IN [j \in 1..Len(idx) |-> s[idx[j]]]

\* out holds the elements of in by non-decreasing key, those of equal key
\* in the order they have in in
IsStableSortOf(out, outKeys, in, inKeys) ==
    /\ Len(out) = Len(in)
    /\ \A i, j \in 1..Len(out) : i < j => outKeys[i] <= outKeys[j]
    /\ \A k \in Range(inKeys) \cup Range(outKeys) : WithKey(out, outKeys, k) = WithKey(in, inKeys, k)

\* C19: fetchSupplyReserves returns the filtered reserves by non-increasing
\* supplyAPY and fetchBorrowReserves by non-decreasing variableBorrowAPY,
\* reserves of equal APY in their original order; the list that was sorted
\* is left as it was.
C19_SortsAreStable ==
    (MarketReturned /\ probe.op # "fetchReserves") =>
        /\ probe.sorted.arg = probe.filtered
        /\ probe.out = probe.sorted.out
        /\ IF probe.op = "fetchSupplyReserves"
           THEN IsStableSortOf(probe.out, [i \in 1..Len(probe.out) |-> -probe.out[i].supplyAPY],
                               probe.filtered,
                               [i \in 1..Len(probe.filtered) |-> -probe.filtered[i].supplyAPY])
           ELSE IsStableSortOf(probe.out, [i \in 1..Len(probe.out) |-> probe.out[i].variableBorrowAPY],
                               probe.filtered,
                               [i \in 1..Len(probe.filtered) |-> probe.filtered[i].variableBorrowAPY])

C19_Witness ==
    /\ MarketReturned
    /\ probe.op = "fetchSupplyReserves"
    /\ [i \in 1..Len(probe.filtered) |-> probe.filtered[i].symbol] = << "XSAUCE", "USDC", "SAUCE" >>
    /\ [i \in 1..Len(probe.out) |-> probe.out[i].symbol] = << "SAUCE", "XSAUCE", "USDC" >>

\* the invocation has ended with a returned value
HasReturned == pc = "done" /\ result.kind # "rejected"

\* C12 as stated: every invocation that returns, returns the object
\* {raw, humanMessage}, whatever the outcome.
C12_Original ==
    HasReturned =>
        /\ ~Returned(result).isString
        /\ Returned(result).raw # Undef
        /\ Returned(result).humanMessage # Undef

\* C12 amended: a write handler returns the object {raw, humanMessage}
\* exactly when it has assembled the transaction and nothing was thrown
\* (submitted or frozen); on the mismatch, missing-operator and caught-error
\* paths, and on every outcome of the market-data tool, the returned value
\* is the human-readable string alone.
C12_WrappedOnlyWhenAssembled ==
    HasReturned =>
        LET v == Returned(result)
        IN /\ v.humanMessage # Undef
           /\ ~v.isString <=> (inv.tool \in Tools /\ tx.built /\ local.thrownAt = Undef)
           /\ (~v.isString => v.raw # Undef /\ result.kind \in {"submitted", "bytes"})
           /\ (result.kind \in {"mismatch", "operator-not-set", "failed", "failed-bare",
                                "report", "failed-market"} => v.isString /\ v.raw = Undef)

C12_Witness ==
    /\ HasReturned
    /\ inv.tool = "withdraw"
    /\ result.kind = "operator-not-set"
    /\ Returned(result).isString

\* C13: in one invocation the transaction is submitted at most once, the
\* market data fetched at most once and the decimals queried at most once,
\* and a failed submission ends the invocation with a failure result.
C13_NoRetry ==
    /\ calls.txExecute <= 1
    /\ calls.market <= 1
    /\ calls.decimalsQuery <= 1
    /\ (pc \in {"execute", "receipt"} => calls.txExecute = 1)
    /\ (local.thrownAt = "execute" =>
           /\ pc = "done"
           /\ result.kind \in {"failed", "failed-bare"}
           /\ calls.txExecute = 1
           /\ calls.receipt = 0)

C13_Witness ==
    /\ pc = "done"
    /\ local.thrownAt = "execute"
    /\ calls.txExecute = 1
    /\ calls.market = 1
    /\ calls.decimalsQuery = 1
    /\ result.kind = "failed"

\* the market data hold a reserve for the token: the listed reserves are
\* USDC (6 decimals) and whbar (8 decimals), matched case-insensitively
MarketHasToken ==
    /\ local.marketAnswer = "listed"
    /\ inv.tokenSymbol \in {"USDC", "whbar"}

\* C14: when fetchReserves fails or lists no reserve for the symbol the
\* handler queries the token contract for the decimals and goes on with
\* them (it ends there only if that query fails); when the market data
\* give the decimals no on-chain query is made.
C14_DecimalsFallback ==
    (inv.tool \in Tools) =>
        IF local.marketAnswer = Unread THEN calls.decimalsQuery = 0
        ELSE IF MarketHasToken
        THEN /\ calls.decimalsQuery = 0
             /\ local.decimalsFrom = "market"
             /\ local.decimals = IF inv.tokenSymbol = "USDC" THEN 6 ELSE 8
        ELSE /\ calls.decimalsQuery = 1
             /\ calls.market = 1
             /\ \/ pc = "decimals"
                \/ local.decimalsFrom = "chain" /\ local.decimals \in {6, 18}
                \/ pc = "done" /\ local.thrownAt = "decimals" /\ local.error.code = "DecimalsFailed"

C14_Witness ==
    /\ local.marketAnswer = "error"
    /\ local.decimalsFrom = "chain"
    /\ local.decimals = 18
    /\ calls.decimalsQuery = 1
    /\ tx.built

\* C20: getEvmAliasAddress gives the alias of the account when the query
\* answers a 42-character 0x-prefixed string other than the zero address
\* (AliasAddress is the only such answer), and the address derived from the
\* account identifier in every other case, a failed query included.
C20_AliasOrDerived ==
    (inv.tool = "deposit" /\ local.evm # Unread) =>
        /\ local.accountId # Undef
        /\ calls.accountInfo = 1
        /\ local.account = IF local.evm = AliasAddress THEN AliasAddress
                           ELSE "0x" \o local.accountId
        /\ (tx.built => tx.account = local.account)
        /\ (local.thrownAt = "accountInfo" => local.error.code = "NoLendingPool")

C20_Witness ==
    /\ inv.tool = "deposit"
    /\ local.evm = "error"
    /\ tx.built
    /\ tx.account = "0x0.0.2002"

\* C15: once a load has given a table the file is not read again, the
\* cache keeps that table, and getTokenAddresses gives the same result for
\* the same symbol and network on every later call, whatever the file has
\* become; while no load has given a table the cache is empty.
C15_LoadIsMemoized ==
    (probe.fn = "dir") =>
        /\ ~probe.readAfterLoad
        /\ probe.repeatable
        /\ (probe.loaded = Undef <=> cachedContracts = NoCache)
        /\ (probe.loaded # Undef => probe.loaded \in Tables /\ cachedContracts = probe.loaded)
        /\ (probe.first.outcome # Unseen => cachedContracts # NoCache)

C15_Witness ==
    /\ probe.fn = "dir"
    /\ cachedContracts = "TableOk"
    /\ file = "missing"
    /\ probe.first.symbol = "WHBAR"
    /\ probe.first.outcome.ok
    /\ probe.repeated

\* C16: under every interleaving of concurrent invocations, once the cache
\* holds a table no step of any invocation, and no change of the file,
\* changes it.
C16_CacheWrittenOnce ==
    [][cachedContracts # NoCache => cachedContracts' = cachedContracts]_vars

C16_Witness ==
    /\ probe.fn = "dir"
    /\ \A k \in Invocations : probe.at[k] = "awaiting"
    /\ probe.ledger[1] # probe.ledger[2]
    /\ cachedContracts = "TableOk"
    /\ file = "TableMismatch"

\* the catch block of a write handler has returned a failure string
CatchReturned ==
    /\ pc = "done"
    /\ local.thrownAt # Undef
    /\ inv.tool \in Tools
    /\ result.kind \in {"failed", "failed-bare"}

\* the string names the active network and lists the symbols available on
\* it ("<none>" for an empty list) after the message of the error
NamesNetworkAndSymbols ==
    /\ result.kind = "failed"
    /\ result.error = local.error
    /\ getNetworkKey(inv.ledgerId).ok
    /\ result.network = getNetworkKey(inv.ledgerId).val
    /\ cachedContracts \in Tables
    /\ IsSortedListing(result.available, TableOf(cachedContracts), result.network)

\* C21 as stated: every failure string a write handler's catch block
\* produces names the active network and carries the list of symbols
\* available on it, or "<none>", besides the message of the error.
C21_Original == CatchReturned => NamesNetworkAndSymbols

\* C21 amended: the failure string produced for a thrown Error names the
\* network and carries the list of available symbols, or "<none>", besides
\* the error's message; for a thrown value that is not an Error the string
\* is the bare "X failed", with no network and no list.
C21_ErrorsNameNetwork ==
    CatchReturned =>
        IF local.error.isError
        THEN NamesNetworkAndSymbols
        ELSE /\ result.kind = "failed-bare"
             /\ result.network = Undef
             /\ result.available = << >>

C21_Witness ==
    /\ CatchReturned
    /\ local.thrownAt = "idle"
    /\ local.error.code = "NotConfigured"
    /\ result.kind = "failed"
    /\ result.network = "hedera_testnet"
    /\ result.available = << "<none>" >>

\* the handlers that act for an account
ActsForAccount == inv.tool \in {"deposit", "withdraw", "borrow", "repay"}

\* the handler has read the accounts and neither is set
NoAccountSet == ActsForAccount /\ inv.optAccount = Undef /\ inv.operator = Undef

\* C22: with neither the optional account nor the operator account set,
\* deposit, withdraw, borrow and repay assemble, freeze and submit nothing
\* and query no account, and the invocation that reaches the account
\* resolution without an exception returns the operator-not-set message;
\* an assembled transaction acts for the optional account when it is
\* given and for the operator account otherwise.
C22_AccountResolution ==
    /\ NoAccountSet =>
          /\ ~tx.built
          /\ calls.accountInfo = 0 /\ calls.freeze = 0
          /\ calls.txExecute = 0 /\ calls.receipt = 0
          /\ pc = "done"
          /\ (local.thrownAt = Undef => result = OperatorNotSet)
          /\ result.kind \notin {"submitted", "bytes"}
    /\ (ActsForAccount /\ result = OperatorNotSet) => NoAccountSet
    /\ (ActsForAccount /\ tx.built) =>
          /\ local.accountId = IF inv.optAccount # Undef THEN inv.optAccount ELSE inv.operator
          /\ local.accountId # Undef
          /\ (inv.tool # "deposit" => tx.account = SolidityAddress(local.accountId))

C22_Witness ==
    /\ pc = "done"
    /\ inv.tool = "repay"
    /\ NoAccountSet
    /\ inv.maxFlag = "true"
    /\ local.decimals = 6
    /\ result = OperatorNotSet
    /\ ~tx.built

\* 2^n times the number held in limbs of four decimal digits (least
\* significant first): doubled n times, sixteen doublings at a time while
\* n allows
RECURSIVE TimesPow2(_, _)
TimesPow2(limbs, n) ==
    IF n = 0 THEN limbs
    ELSE IF n >= 16 THEN TimesPow2(LimbMulAdd(limbs, 2 ^ 16, 0), n - 16)
    ELSE TimesPow2(LimbMulAdd(limbs, 2, 0), n - 1)

\* 2^n in decimal digits
Pow2(n) == LimbsToDigits(TimesPow2(<< 1 >>, n))

\* ds is a natural number below 2^bits
FitsInBits(ds, bits) == BigLess(ds, Pow2(bits))

\* C23: maxUint256 is 2^256 - 1: its successor is 2^256, it fits in 256
\* bits, and a toWei result fits in 256 bits exactly when it is less than
\* or equal to maxUint256.
C23_MaxUnitsExact ==
    (probe.fn = "maxUnits" /\ probe.applied) =>
        /\ BigSucc(probe.max) = Pow2(256)
        /\ FitsInBits(probe.max, 256)
        /\ ~FitsInBits(probe.max, 255)
        /\ (probe.out.ok => (FitsInBits(probe.out.val, 256) <=> BigLeq(probe.out.val, probe.max)))

C23_Witness ==
    /\ probe.fn = "maxUnits"
    /\ probe.applied
    /\ probe.decimals = 77
    /\ probe.out.ok
    /\ Len(probe.out.val) = 78
    /\ FitsInBits(probe.out.val, 256)
    /\ Len(probe.max) = 78

ExplicitSpender == inv.tool = "approve" /\ inv.spender \notin {Undef, Unread}

\* C25: an approve call with an explicit spender never returns the
\* network-mismatch text, whatever the spender and the network; unless it
\* throws it assembles the approve transaction, on the token contract,
\* with that spender.
C25_ExplicitSpenderUnchecked ==
    ExplicitSpender =>
        /\ result.kind # "mismatch"
        /\ local.spender \in {Undef, inv.spender}
        /\ (pc = "done" /\ local.thrownAt = Undef => tx.built)
        /\ (tx.built => tx.spender = inv.spender /\ tx.contractId = local.token)

C25_Witness ==
    /\ ExplicitSpender
    /\ inv.spender = MAINNET_LENDING_POOL_ADDRESS
    /\ inv.ledgerId = "testnet"
    /\ cachedContracts = "TableMismatch"
    /\ validateNetworkMismatch(local.network, inv.spender)
    /\ tx.built
    /\ tx.spender = MAINNET_LENDING_POOL_ADDRESS
    /\ result.kind = "bytes"

\* a write handler has looked its symbol up in the directory and the
\* symbol is absent or has no token address on the active network
SymbolUnresolvable == Resolving /\ inv.tool \in Tools /\ ~HasTokenAddress

\* C26: when the requested symbol is absent from the directory or has no
\* token address on the active network, the invocation ends before its
\* first await with a failure string: no market-data request, no ledger
\* query, no freeze and no submission is made and nothing is assembled; and
\* a write handler that has made any such call has resolved its token.
C26_ResolutionPrecedesIO ==
    /\ SymbolUnresolvable =>
          /\ pc = "done"
          /\ local.thrownAt = "idle"
          /\ local.error.code \in {"NotFound", "NotConfigured", "NotAvailable"}
          /\ result.kind = "failed"
          /\ result.error = local.error
          /\ calls = NoCalls
          /\ ~tx.built
    /\ (inv.tool \in Tools /\ calls # NoCalls) => (HasTokenAddress /\ local.token # Undef)

C26_Witness ==
    /\ SymbolUnresolvable
    /\ inv.tool = "borrow"
    /\ ResolvedSymbol = "DOGE"
    /\ local.error.code = "NotFound"
    /\ result.kind = "failed"
    /\ calls.market = 0

\* C27: the mode is tested once, when the transaction has been assembled:
\* AUTONOMOUS alone leads to tx.execute and the receipt, every other value
\* and an absent mode lead to the freeze; a submitted result follows one
\* submission and its receipt and no freeze, a bytes result follows one
\* freeze and no submission, and no invocation takes both paths.
C27_ModeSelectsOnce ==
    inv.tool \in Tools =>
        /\ calls.txExecute + calls.freeze <= 1
        /\ (tx.built <=> calls.txExecute + calls.freeze = 1)
        /\ (tx.built /\ inv.mode = "AUTONOMOUS" =>
               /\ calls.txExecute = 1 /\ calls.freeze = 0
               /\ pc \in {"execute", "receipt", "done"})
        /\ (tx.built /\ inv.mode # "AUTONOMOUS" =>
               /\ calls.freeze = 1 /\ calls.txExecute = 0 /\ calls.receipt = 0
               /\ pc \in {"freeze", "done"})
        /\ (result.kind = "submitted" =>
               inv.mode = "AUTONOMOUS" /\ calls.txExecute = 1 /\ calls.receipt = 1)
        /\ (result.kind = "bytes" => inv.mode # "AUTONOMOUS" /\ calls.freeze = 1)
        /\ (pc = "done" /\ tx.built /\ local.thrownAt = Undef =>
               result.kind = IF inv.mode = "AUTONOMOUS" THEN "submitted" ELSE "bytes")

C27_Witness ==
    /\ pc = "done"
    /\ inv.tool = "approve"
    /\ inv.mode = "Autonomous"
    /\ result.kind = "bytes"
    /\ calls.freeze = 1
    /\ calls.txExecute = 0

\* neither source has given the decimals: the market request failed or
\* listed no reserve for the symbol, and the on-chain query has thrown
DecimalsUnresolved ==
    /\ pc = "done"
    /\ local.thrownAt = "decimals"
    /\ local.decimalsFrom = Undef

\* C28: withdraw, approve and repay read the maximum flag only once the
\* decimals are resolved: while they are not, the flag has not been
\* consulted and nothing is assembled; when the market data and the
\* on-chain query both fail the invocation returns the failure string of
\* the decimals query, whatever the flag; and a transaction carrying
\* maxUint256 was assembled with resolved decimals.
C28_MaxFlagNeedsDecimals ==
    HasMaxFlag(inv.tool) =>
        /\ (local.decimalsFrom = Undef => inv.maxFlag = Unread /\ ~tx.built)
        /\ (inv.maxFlag # Unread =>
               local.decimalsFrom \in {"market", "chain"} /\ local.decimals >= 0)
        /\ (DecimalsUnresolved =>
               /\ ~MarketHasToken
               /\ result.kind = "failed"
               /\ result.error.code = "DecimalsFailed"
               /\ calls.market = 1 /\ calls.decimalsQuery = 1
               /\ calls.freeze = 0 /\ calls.txExecute = 0
               /\ ~tx.built)
        /\ (tx.built /\ inv.maxFlag = "true" =>
               tx.amount = maxUint256 /\ local.decimalsFrom \in {"market", "chain"})

C28_Witness ==
    /\ inv.tool = "repay"
    /\ DecimalsUnresolved
    /\ local.marketAnswer = "error"
    /\ inv.maxFlag = Unread
    /\ result.kind = "failed"
    /\ ~tx.built

\* the address the directory gives for the lending pool of the active
\* network
DirectoryPool ==
    (CHOOSE e \in Range(TableOf(cachedContracts)) : e.key = "LendingPool")[local.network].address

\* C29: an assembled approve call targets the token contract the directory
\* gives for the symbol on the active network, with the explicit spender,
\* or else the network's lending pool, as spender; an assembled deposit,
\* withdraw, borrow or repay call targets the network's lending pool and
\* carries that token address as its first argument.
C29_TargetByAction ==
    (inv.tool \in Tools /\ tx.built) =>
        /\ Resolving /\ HasTokenAddress
        /\ tx.fn = inv.tool
        /\ IF inv.tool = "approve"
           THEN /\ tx.contractId = DirectoryNet.token
                /\ tx.asset = Undef
                /\ tx.spender = IF inv.spender # Undef THEN inv.spender ELSE DirectoryPool
           ELSE /\ tx.contractId = DirectoryPool
                /\ tx.asset = DirectoryNet.token
                /\ tx.spender = Undef
                /\ tx.contractId # tx.asset

C29_Witness ==
    /\ tx.built
    /\ inv.tool = "withdraw"
    /\ inv.ledgerId = "testnet"
    /\ ResolvedSymbol = "WHBAR"
    /\ cachedContracts = "TableOk"
    /\ tx.contractId = TestnetPool
    /\ tx.asset = "whbar_t"

\* C30: the rate-mode argument of an assembled borrow or repay call is 1
\* for "stable" and 2 for "variable", whatever the handler, the token and
\* the amount; the other handlers encode no rate mode.
C30_RateModeEncoding ==
    (inv.tool \in Tools /\ tx.built) =>
        IF HasRateMode(inv.tool)
        THEN /\ inv.rateMode \in {"stable", "variable"}
             /\ (inv.rateMode = "stable" => tx.rate = 1)
             /\ (inv.rateMode = "variable" => tx.rate = 2)
        ELSE inv.rateMode = Unread /\ tx.rate = 0

C30_Witness ==
    /\ tx.built
    /\ inv.tool = "repay"
    /\ inv.rateMode = "variable"
    /\ inv.maxFlag = "true"
    /\ tx.rate = 2

====
